---- MODULE Spec2Model ----
(***************************************************************************)
(* Earliest-fit scheduling of subtasks on a calendar:                      *)
(*   findEarliestFitSlot   (src/src/scheduler.ts)                          *)
(*   schedule_tasks loop   (src/src/server.ts)                             *)
(*   command-line client   (src/unnamed/part_001)                          *)
(*   authorize             (src/src/client.ts)                             *)
(*                                                                         *)
(* An instant is a number of minutes of local wall-clock time counted from *)
(* Monday 1 June 2026 00:00 (no daylight-saving change in the horizon).    *)
(* A JavaScript Date is modelled by its instant; where the code shares one *)
(* Date object between two places, the sharing is modelled explicitly      *)
(* (endRef / cursorRef / tryRef below).                                    *)
(*                                                                         *)
(* Spec       one call of the handler, the finder run step by step         *)
(* FinderSpec findEarliestFitSlot alone, over a range of arguments         *)
(* RunsSpec   two calls of the handler interleaved at their awaits         *)
(* ClientSpec main() of the client                                         *)
(* AuthSpec   one call of authorize                                        *)
(***************************************************************************)
EXTENDS Integers, Sequences, FiniteSets, TLC

VARIABLES
    \* ---- findEarliestFitSlot: arguments and locals
    searchStartTime, durationMinutes, workStartHour, workEndHour,
    bufferMinutes, searchEndDate,
    currentTryTime,         \* the trial start time
    tryRef,                 \* the Date object currentTryTime is bound to
    fpc,                    \* "idle" | "loop" | "done"
    slot,                   \* the value returned (found = FALSE models null)
    iters,                  \* number of executions of the loop body
    \* ---- schedule_tasks handler
    pc,                     \* position in the handler
    searchRangeStart, searchRangeEnd,
    subtasks,               \* the request: sequence of duration_minutes
    idx,                    \* index of the subtask the for-loop is at
    busyTimes,              \* sequence of [start, end, endRef]
    initialBusy,            \* the free/busy snapshot as received
    nextAvailableStartTime, \* the search cursor
    cursorRef,              \* identity of the cursor's Date object
    scheduledEvents, unscheduledSubtasks,
    extra,                  \* the handler's second parameter (abort signal)
    documentUrl,            \* the created document's URL ('' before)
    resources,              \* the URIs registered with server.resource
    stages,                 \* the awaited stages that have resolved, in order
    result,                 \* what the handler has returned
    \* ---- several calls of the handler in progress at once
    runs,                   \* the local state of each call
    \* ---- the command-line client
    client,                 \* the state of main()
    \* ---- authorize
    auth                    \* the state of a call of authorize and its files

vars == <<searchStartTime, durationMinutes, workStartHour, workEndHour,
          bufferMinutes, searchEndDate, currentTryTime, tryRef, fpc, slot, iters,
          pc, searchRangeStart, searchRangeEnd, subtasks, idx, busyTimes,
          initialBusy, nextAvailableStartTime, cursorRef,
          scheduledEvents, unscheduledSubtasks, extra, documentUrl,
          resources, stages, result, runs, client, auth>>

finderVars == <<searchStartTime, durationMinutes, workStartHour, workEndHour,
                bufferMinutes, searchEndDate, currentTryTime, tryRef, fpc, slot,
                iters>>

stageVars == <<documentUrl, resources, stages, result>>

handlerVars == <<pc, searchRangeStart, searchRangeEnd, subtasks, idx,
                 initialBusy, nextAvailableStartTime, cursorRef,
                 scheduledEvents, unscheduledSubtasks>>

----------------------------------------------------------------------------
(* Date arithmetic *)

MinutesPerDay == 24 * 60

\* The instant of day d (0 = Monday 1 June 2026) at h:m.
At(d, h, m) == d * MinutesPerDay + h * 60 + m

DayIndex(t) == t \div MinutesPerDay

\* Date.prototype.getDay: 0 = Sunday ... 6 = Saturday.
getDay(t) == (DayIndex(t) + 1) % 7

getHours(t) == (t % MinutesPerDay) \div 60

getMinutes(t) == t % 60

\* Date.prototype.getDate: the day of the month (June has 30 days, July 31).
getDate(t) ==
    LET d == DayIndex(t)
    IN  IF d < 30 THEN d + 1
        ELSE IF d < 61 THEN d - 29
        ELSE d - 60

\* date.setHours(h, 0, 0, 0)
setHours(t, h) == DayIndex(t) * MinutesPerDay + h * 60

\* date.setDate(n): n may exceed the month's length, the Date rolls over.
setDate(t, n) == t + (n - getDate(t)) * MinutesPerDay

\* date.setMinutes(n): n may reach 60, the Date rolls over.
setMinutes(t, n) == t + (n - getMinutes(t))

----------------------------------------------------------------------------
(* scheduler.ts *)

WORK_DAY_START_HOUR == 9
WORK_DAY_END_HOUR == 17
BUFFER_MINUTES == 15

NullSlot == [found |-> FALSE, start |-> 0, end |-> 0]

isWithinWorkingHours(date, startHour, endHour) ==
    LET day == getDay(date)
        hour == getHours(date)
    IN  day >= 1 /\ day <= 5 /\ hour >= startHour /\ hour < endHour

totalDuration == durationMinutes + bufferMinutes

potentialEndTime_NoBuffer == currentTryTime + durationMinutes

potentialEndTime == currentTryTime + totalDuration

MoveToNextWorkingDay_SameDay(t, startHour) == setHours(t, startHour)

MoveToNextWorkingDay_NextDay(t, startHour) ==
    setDate(setHours(t, startHour), getDate(setHours(t, startHour)) + 1)

\* "Move to the start of the next working day"
MoveToNextWorkingDay(t, startHour) ==
    LET s == setHours(t, startHour)
    IN  IF getDay(s) = 5 THEN setDate(s, getDate(s) + 3)
        ELSE IF getDay(s) = 6 THEN setDate(s, getDate(s) + 2)
        ELSE setDate(s, getDate(s) + 1)

\* "Check end time (must end before workEndHour)": TRUE when the test rejects.
EndTimeRejected(tryTime, endTime, endHour) ==
    \/ getHours(endTime) > endHour
    \/ (getHours(endTime) = endHour /\ getMinutes(endTime) > 0)
    \/ getDate(endTime) # getDate(tryTime)

Overlaps_Closed(busySlot, tryTime, endTime) ==
    busySlot.start <= endTime /\ busySlot.end >= tryTime

Overlaps_EndAgainstEnd(busySlot, tryTime, endTime) ==
    busySlot.start < endTime /\ busySlot.end > endTime

\* (BusyStart < PotentialEnd) && (BusyEnd > PotentialStart)
Overlaps(busySlot, tryTime, endTime) ==
    busySlot.start < endTime /\ busySlot.end > tryTime

FirstConflict_LastInScan(busy, tryTime, endTime) ==
    IF \E i \in 1..Len(busy) : Overlaps(busy[i], tryTime, endTime)
    THEN CHOOSE i \in 1..Len(busy) :
            /\ Overlaps(busy[i], tryTime, endTime)
            /\ \A j \in (i + 1)..Len(busy) : ~Overlaps(busy[j], tryTime, endTime)
    ELSE 0

\* Index of the first busy slot, in array order, that overlaps; 0 when none.
FirstConflict(busy, tryTime, endTime) ==
    IF \E i \in 1..Len(busy) : Overlaps(busy[i], tryTime, endTime)
    THEN CHOOSE i \in 1..Len(busy) :
            /\ Overlaps(busy[i], tryTime, endTime)
            /\ \A j \in 1..(i - 1) : ~Overlaps(busy[j], tryTime, endTime)
    ELSE 0

FoundSlot_WithBuffer(tryTime, duration) ==
    [found |-> TRUE, start |-> tryTime, end |-> tryTime + duration + bufferMinutes]

\* The slot returned when no busy slot conflicts.
FoundSlot(tryTime, duration) ==
    [found |-> TRUE, start |-> tryTime, end |-> tryTime + duration]

\* A Date object the finder made itself.
OwnDate == [kind |-> "own", i |-> 0]

\* The Date object passed as searchStartTime: the caller's cursor.
SearchStartDate == [kind |-> "searchStartTime", i |-> 0]

\* The Date object in the end field of busyTimes[i].
BusyEndDate(i) == [kind |-> "busyEnd", i |-> i]

NewDate_SameObject(obj) == obj

\* new Date(obj.getTime()): a Date object of its own.
NewDate(obj) == OwnDate

\* A step of findEarliestFitSlot that writes to no Date object.
FinderFrame ==
    UNCHANGED busyTimes /\ UNCHANGED handlerVars /\ UNCHANGED <<runs, client, extra, stageVars, auth>>

\* currentTryTime.setHours(...) / setDate(...): the write lands on the object
\* currentTryTime is bound to, and shows wherever that object is held.
SetInPlace(t) ==
    /\ currentTryTime' = t
    /\ searchStartTime' =
          IF tryRef = SearchStartDate THEN t ELSE searchStartTime
    /\ nextAvailableStartTime' =
          IF tryRef = SearchStartDate THEN t ELSE nextAvailableStartTime
    /\ busyTimes' =
          IF tryRef.kind = "busyEnd"
          THEN [busyTimes EXCEPT ![tryRef.i].end = t]
          ELSE busyTimes
    /\ UNCHANGED <<pc, searchRangeStart, searchRangeEnd, subtasks, idx,
                   initialBusy, cursorRef, scheduledEvents, unscheduledSubtasks,
                   runs, client, extra, stageVars, auth>>

\* while (currentTryTime < searchEndDate) is false: fall out, return null.
LoopExit ==
    /\ fpc = "loop"
    /\ FinderFrame
    /\ ~(currentTryTime < searchEndDate)
    /\ fpc' = "done"
    /\ slot' = NullSlot
    /\ UNCHANGED <<searchStartTime, durationMinutes, workStartHour, workEndHour,
                   bufferMinutes, searchEndDate, currentTryTime, tryRef, iters>>

\* 1. potentialEndTime > searchEndDate: return null.
DeadlineReturn ==
    /\ fpc = "loop"
    /\ FinderFrame
    /\ currentTryTime < searchEndDate
    /\ potentialEndTime > searchEndDate
    /\ fpc' = "done"
    /\ slot' = NullSlot
    /\ iters' = iters + 1
    /\ UNCHANGED <<searchStartTime, durationMinutes, workStartHour, workEndHour,
                   bufferMinutes, searchEndDate, currentTryTime, tryRef>>

\* 2a. the start is outside working hours: next working day, continue.
StartAdvance ==
    /\ fpc = "loop"
    /\ currentTryTime < searchEndDate
    /\ ~(potentialEndTime > searchEndDate)
    /\ ~isWithinWorkingHours(currentTryTime, workStartHour, workEndHour)
    /\ SetInPlace(MoveToNextWorkingDay(currentTryTime, workStartHour))
    /\ iters' = iters + 1
    /\ UNCHANGED <<durationMinutes, workStartHour, workEndHour,
                   bufferMinutes, searchEndDate, tryRef, fpc, slot>>

\* 2b. the end is past closing time or on another date: next working day.
EndAdvance ==
    /\ fpc = "loop"
    /\ currentTryTime < searchEndDate
    /\ ~(potentialEndTime > searchEndDate)
    /\ isWithinWorkingHours(currentTryTime, workStartHour, workEndHour)
    /\ EndTimeRejected(currentTryTime, potentialEndTime, workEndHour)
    /\ SetInPlace(MoveToNextWorkingDay(currentTryTime, workStartHour))
    /\ iters' = iters + 1
    /\ UNCHANGED <<durationMinutes, workStartHour, workEndHour,
                   bufferMinutes, searchEndDate, tryRef, fpc, slot>>

\* 3. a busy slot overlaps: jump to its end, continue.
ConflictJump ==
    /\ fpc = "loop"
    /\ FinderFrame
    /\ currentTryTime < searchEndDate
    /\ ~(potentialEndTime > searchEndDate)
    /\ isWithinWorkingHours(currentTryTime, workStartHour, workEndHour)
    /\ ~EndTimeRejected(currentTryTime, potentialEndTime, workEndHour)
    /\ FirstConflict(busyTimes, currentTryTime, potentialEndTime) # 0
    /\ currentTryTime' =
          busyTimes[FirstConflict(busyTimes, currentTryTime, potentialEndTime)].end
    /\ tryRef' =
          NewDate(BusyEndDate(FirstConflict(busyTimes, currentTryTime, potentialEndTime)))
    /\ iters' = iters + 1
    /\ UNCHANGED <<searchStartTime, durationMinutes, workStartHour, workEndHour,
                   bufferMinutes, searchEndDate, fpc, slot>>

\* No conflict: return the slot, without the buffer.
Found ==
    /\ fpc = "loop"
    /\ FinderFrame
    /\ currentTryTime < searchEndDate
    /\ ~(potentialEndTime > searchEndDate)
    /\ isWithinWorkingHours(currentTryTime, workStartHour, workEndHour)
    /\ ~EndTimeRejected(currentTryTime, potentialEndTime, workEndHour)
    /\ FirstConflict(busyTimes, currentTryTime, potentialEndTime) = 0
    /\ fpc' = "done"
    /\ slot' = FoundSlot(currentTryTime, durationMinutes)
    /\ iters' = iters + 1
    /\ UNCHANGED <<searchStartTime, durationMinutes, workStartHour, workEndHour,
                   bufferMinutes, searchEndDate, currentTryTime, tryRef>>

\* One step of findEarliestFitSlot.
FinderStep ==
    \/ LoopExit
    \/ DeadlineReturn
    \/ StartAdvance
    \/ EndAdvance
    \/ ConflictJump
    \/ Found

RECURSIVE findEarliestFitSlot(_, _, _, _, _, _, _)
\* findEarliestFitSlot as a function of its arguments: the value the loop
\* returns when entered with trial time tryTime.
findEarliestFitSlot(tryTime, duration, busy, startHour, endHour, buffer, endDate) ==
    LET endTime == tryTime + duration + buffer
        conflict == FirstConflict(busy, tryTime, endTime)
    IN  IF ~(tryTime < endDate) THEN NullSlot
        ELSE IF endTime > endDate THEN NullSlot
        ELSE IF \/ ~isWithinWorkingHours(tryTime, startHour, endHour)
                \/ EndTimeRejected(tryTime, endTime, endHour)
             THEN findEarliestFitSlot(MoveToNextWorkingDay(tryTime, startHour),
                                      duration, busy, startHour, endHour,
                                      buffer, endDate)
        ELSE IF conflict # 0
             THEN findEarliestFitSlot(busy[conflict].end, duration, busy,
                                      startHour, endHour, buffer, endDate)
        ELSE FoundSlot(tryTime, duration)

----------------------------------------------------------------------------
(* server.ts: the schedule_tasks handler, from the free/busy query on *)

SCHEDULING_START_OFFSET_DAYS == 1
SCHEDULING_WINDOW_DAYS == 7
SCHEDULING_WORK_DAY_START_HOUR == 9
SCHEDULING_WORK_DAY_END_HOUR == 17
SCHEDULING_BUFFER_MINUTES == 15

\* A busy interval; endRef names the Date object held in its end field
\* (0: an object nothing else refers to).
Busy(s, e) == [start |-> s, end |-> e, endRef |-> 0]

RECURSIVE InsertByStart(_, _)
\* Insert e behind every element whose start is not later than e's.
InsertByStart(sorted, e) ==
    IF sorted = <<>> THEN <<e>>
    ELSE IF Head(sorted).start <= e.start
         THEN <<Head(sorted)>> \o InsertByStart(Tail(sorted), e)
         ELSE <<e>> \o sorted

RECURSIVE SortByStart(_)
\* busyTimes.sort((a, b) => a.start.getTime() - b.start.getTime()): stable.
SortByStart(seq) ==
    IF seq = <<>> THEN <<>>
    ELSE InsertByStart(SortByStart(SubSeq(seq, 1, Len(seq) - 1)), seq[Len(seq)])

\* searchRangeStart: tomorrow at the opening hour.
RangeStart(now) ==
    setHours(setDate(now, getDate(now) + SCHEDULING_START_OFFSET_DAYS),
             SCHEDULING_WORK_DAY_START_HOUR)

\* searchRangeEnd: the closing hour, seven days after searchRangeStart.
RangeEnd(start) ==
    setHours(setDate(start, getDate(start) + SCHEDULING_WINDOW_DAYS),
             SCHEDULING_WORK_DAY_END_HOUR)

BusySlotEnd_NoBuffer(s) == s.end

BusySlotEnd_DoubleBuffer(s) == s.end + SCHEDULING_BUFFER_MINUTES + SCHEDULING_BUFFER_MINUTES

\* busySlotEnd: the slot's end plus the buffer.
BusySlotEnd(s) == s.end + SCHEDULING_BUFFER_MINUTES

PushBusy_SlotOnly(busy, s, ref) ==
    SortByStart(Append(busy, [start |-> s.start, end |-> s.end, endRef |-> ref]))

\* busyTimes after push and sort; ref names the new busySlotEnd object.
PushBusy(busy, s, ref) ==
    SortByStart(Append(busy, [start |-> s.start, end |-> BusySlotEnd(s),
                              endRef |-> ref]))

NudgeBusy_Earlier(busy, ref, t) ==
    [i \in 1..Len(busy) |->
        IF ref # 0 /\ busy[i].endRef = ref
        THEN [busy[i] EXCEPT !.end = setMinutes(t, getMinutes(t) - 1)]
        ELSE busy[i]]

\* nextAvailableStartTime.setMinutes(getMinutes() + 1) acts on the Date object
\* the cursor refers to: every busy interval holding that object sees it.
NudgeBusy(busy, ref, t) ==
    [i \in 1..Len(busy) |->
        IF ref # 0 /\ busy[i].endRef = ref
        THEN [busy[i] EXCEPT !.end = setMinutes(t, getMinutes(t) + 1)]
        ELSE busy[i]]

MaxSubtasks == 3

\* duration_minutes: z.number().int()
SubtaskDurations == {-30, 60, 450, 600}

SubtaskLists ==
    UNION {[1..n -> SubtaskDurations] : n \in 0..MaxSubtasks}

\* new Date(): Sunday, Thursday or Friday afternoon.
NowInstants == {At(6, 14, 30), At(10, 14, 30), At(11, 14, 30)}

\* What the free/busy query may answer for a window opening at s.
FreeBusyResponses(s) ==
    { <<>>,
      <<Busy(s, s + 480)>>,
      <<Busy(s, s + 1080)>>,
      <<Busy(s + 60, s + 120)>>,
      <<Busy(s + 180, s + 240), Busy(s, s + 60)>>,
      <<Busy(s, s + 120), Busy(s + 30, s + 60)>>,
      <<Busy(s, RangeEnd(s) - 60)>>,
      <<Busy(s, RangeEnd(s) - 75)>> }

\* ---- the stages of the handler before the scheduling loop

\* The handler has not returned.
NoResult == [returned |-> FALSE, isError |-> FALSE, text |-> ""]

\* lines 322-370: the text of the error result. An Error's message is kept up
\* to its first colon; the catch block prefixes the messages it knows by
\* their start and passes any other message on.
errorMessage(error) ==
    CASE error.message = "Failed to authenticate" ->
            "Google Authentication Error: Failed to authenticate"
      [] error.message = "Failed to create/update Google Doc" ->
            "Google Docs API Error: Failed to create/update Google Doc"
      [] error.message = "Failed to query free/busy" ->
            "Google Calendar API Error (Free/Busy): Failed to query free/busy"
      [] error.message = "Failed to create calendar event" ->
            "Google Calendar API Error (Event): Failed to create calendar event"
      [] OTHER -> error.message

\* lines 371-375: the return of the catch block.
ErrorResult(error) ==
    [returned |-> TRUE, isError |-> TRUE, text |-> errorMessage(error)]

\* lines 305-320: the return at the end of the try block.
SuccessResult ==
    [returned |-> TRUE, isError |-> FALSE, text |-> "Plan created"]

\* What the awaited createDocsWithSubtasks may reject with.
DocsErrors ==
    {[message |-> "Failed to create/update Google Doc"],
     [message |-> "Request failed"]}

\* The URL createDocsWithSubtasks resolves with.
CreatedDocumentUrl == "https://docs.google.com/document/d/1/edit"

\* A stage throws: control passes to the catch block, which returns.
CatchAndReturn(error) ==
    /\ result' = ErrorResult(error)
    /\ pc' = "failed"

AuthorizeRejected_Ignored ==
    /\ pc = "entered"
    /\ pc' = "authorized"
    /\ UNCHANGED <<documentUrl, resources, stages, result>>
    /\ UNCHANGED <<searchRangeStart, searchRangeEnd, subtasks, idx, busyTimes,
                   initialBusy, nextAvailableStartTime, cursorRef,
                   scheduledEvents, unscheduledSubtasks>>
    /\ UNCHANGED <<finderVars, runs, client, extra, auth>>

\* line 219: await authorize() resolves.
AuthorizeResolved ==
    /\ pc = "entered"
    /\ stages' = Append(stages, "authorize")
    /\ pc' = "authorized"
    /\ UNCHANGED <<documentUrl, resources, result>>
    /\ UNCHANGED <<searchRangeStart, searchRangeEnd, subtasks, idx, busyTimes,
                   initialBusy, nextAvailableStartTime, cursorRef,
                   scheduledEvents, unscheduledSubtasks>>
    /\ UNCHANGED <<finderVars, runs, client, extra, auth>>

\* line 219: await authorize() rejects; lines 322-375.
AuthorizeRejected ==
    /\ pc = "entered"
    /\ CatchAndReturn([message |-> "Failed to authenticate"])
    /\ UNCHANGED <<documentUrl, resources, stages>>
    /\ UNCHANGED <<searchRangeStart, searchRangeEnd, subtasks, idx, busyTimes,
                   initialBusy, nextAvailableStartTime, cursorRef,
                   scheduledEvents, unscheduledSubtasks>>
    /\ UNCHANGED <<finderVars, runs, client, extra, auth>>

\* lines 223-242: await createDocsWithSubtasks(...) resolves; the document is
\* registered as a resource, and a throw of server.resource is only logged.
CreateDocsResolved ==
    /\ pc = "authorized"
    /\ documentUrl' = CreatedDocumentUrl
    /\ stages' = Append(stages, "createDocsWithSubtasks")
    /\ \E registered \in BOOLEAN :
          resources' = IF registered
                       THEN resources \cup {CreatedDocumentUrl}
                       ELSE resources
    /\ pc' = "start"
    /\ UNCHANGED result
    /\ UNCHANGED <<searchRangeStart, searchRangeEnd, subtasks, idx, busyTimes,
                   initialBusy, nextAvailableStartTime, cursorRef,
                   scheduledEvents, unscheduledSubtasks>>
    /\ UNCHANGED <<finderVars, runs, client, extra, auth>>

\* line 223: await createDocsWithSubtasks(...) rejects; lines 322-375.
CreateDocsRejected ==
    /\ pc = "authorized"
    /\ \E error \in DocsErrors : CatchAndReturn(error)
    /\ UNCHANGED <<documentUrl, resources, stages>>
    /\ UNCHANGED <<searchRangeStart, searchRangeEnd, subtasks, idx, busyTimes,
                   initialBusy, nextAvailableStartTime, cursorRef,
                   scheduledEvents, unscheduledSubtasks>>
    /\ UNCHANGED <<finderVars, runs, client, extra, auth>>

\* lines 249-262: the window is computed and await getFreeBusy(...) rejects;
\* lines 322-375. The catch block leaves the created document as it is.
GetFreeBusyRejected ==
    /\ pc = "start"
    /\ CatchAndReturn([message |-> "Failed to query free/busy"])
    /\ \E now \in NowInstants :
         /\ searchRangeStart' = RangeStart(now)
         /\ searchRangeEnd' = RangeEnd(RangeStart(now))
    /\ UNCHANGED <<documentUrl, resources, stages>>
    /\ UNCHANGED <<subtasks, idx, busyTimes, initialBusy,
                   nextAvailableStartTime, cursorRef,
                   scheduledEvents, unscheduledSubtasks>>
    /\ UNCHANGED <<finderVars, runs, client, extra, auth>>

\* lines 249-269: the window, the free/busy snapshot, the cursor.
GetFreeBusy ==
    /\ pc = "start"
    /\ stages' = Append(stages, "getFreeBusy")
    /\ UNCHANGED <<runs, client, extra, documentUrl, resources, result, auth>>
    /\ \E now \in NowInstants :
         /\ searchRangeStart' = RangeStart(now)
         /\ searchRangeEnd' = RangeEnd(RangeStart(now))
         /\ \E resp \in FreeBusyResponses(RangeStart(now)) :
              /\ busyTimes' = resp
              /\ initialBusy' = resp
         /\ nextAvailableStartTime' = RangeStart(now)
    /\ cursorRef' = 0
    /\ pc' = "loop"
    /\ UNCHANGED <<subtasks, idx, scheduledEvents, unscheduledSubtasks>>
    /\ UNCHANGED finderVars

CallFinder_FromWindowStart ==
    /\ pc = "loop"
    /\ UNCHANGED <<runs, client, extra, stageVars, auth>>
    /\ idx <= Len(subtasks)
    /\ searchStartTime' = searchRangeStart
    /\ durationMinutes' = subtasks[idx]
    /\ workStartHour' = SCHEDULING_WORK_DAY_START_HOUR
    /\ workEndHour' = SCHEDULING_WORK_DAY_END_HOUR
    /\ bufferMinutes' = SCHEDULING_BUFFER_MINUTES
    /\ searchEndDate' = searchRangeEnd
    /\ currentTryTime' = searchRangeStart
    /\ tryRef' = NewDate(SearchStartDate)
    /\ fpc' = "loop"
    /\ slot' = NullSlot
    /\ iters' = 0
    /\ pc' = "finding"
    /\ UNCHANGED <<searchRangeStart, searchRangeEnd, subtasks, idx, busyTimes,
                   initialBusy, nextAvailableStartTime, cursorRef,
                   scheduledEvents, unscheduledSubtasks>>

\* lines 271-280 and scheduler.ts 47-48: the call of findEarliestFitSlot.
CallFinder ==
    /\ pc = "loop"
    /\ UNCHANGED <<runs, client, extra, stageVars, auth>>
    /\ idx <= Len(subtasks)
    /\ searchStartTime' = nextAvailableStartTime
    /\ durationMinutes' = subtasks[idx]
    /\ workStartHour' = SCHEDULING_WORK_DAY_START_HOUR
    /\ workEndHour' = SCHEDULING_WORK_DAY_END_HOUR
    /\ bufferMinutes' = SCHEDULING_BUFFER_MINUTES
    /\ searchEndDate' = searchRangeEnd
    /\ currentTryTime' = nextAvailableStartTime
    /\ tryRef' = NewDate(SearchStartDate)
    /\ fpc' = "loop"
    /\ slot' = NullSlot
    /\ iters' = 0
    /\ pc' = "finding"
    /\ UNCHANGED <<searchRangeStart, searchRangeEnd, subtasks, idx, busyTimes,
                   initialBusy, nextAvailableStartTime, cursorRef,
                   scheduledEvents, unscheduledSubtasks>>

\* lines 283-294: createCalendarEvent resolved.
CommitSuccess ==
    /\ pc = "finding" /\ fpc = "done" /\ slot.found
    /\ UNCHANGED <<runs, client, extra, stageVars, auth>>
    /\ scheduledEvents' = Append(scheduledEvents, [subtask |-> idx, slot |-> slot])
    /\ busyTimes' = PushBusy(busyTimes, slot, Len(scheduledEvents) + 1)
    /\ nextAvailableStartTime' = BusySlotEnd(slot)
    /\ cursorRef' = Len(scheduledEvents) + 1
    /\ idx' = idx + 1
    /\ pc' = "loop"
    /\ fpc' = "idle"
    /\ UNCHANGED <<searchRangeStart, searchRangeEnd, subtasks, initialBusy,
                   unscheduledSubtasks>>
    /\ UNCHANGED <<searchStartTime, durationMinutes, workStartHour, workEndHour,
                   bufferMinutes, searchEndDate, currentTryTime, tryRef, slot,
                   iters>>

CommitFailure_NoSlotReason ==
    /\ pc = "finding" /\ fpc = "done" /\ slot.found
    /\ UNCHANGED <<runs, client, extra, stageVars, auth>>
    /\ unscheduledSubtasks' =
          Append(unscheduledSubtasks, [subtask |-> idx, reason |-> "No slot found"])
    /\ nextAvailableStartTime' =
          setMinutes(nextAvailableStartTime, getMinutes(nextAvailableStartTime) + 1)
    /\ busyTimes' = NudgeBusy(busyTimes, cursorRef, nextAvailableStartTime)
    /\ idx' = idx + 1
    /\ pc' = "loop"
    /\ fpc' = "idle"
    /\ UNCHANGED <<searchRangeStart, searchRangeEnd, subtasks, initialBusy,
                   cursorRef, scheduledEvents>>
    /\ UNCHANGED <<searchStartTime, durationMinutes, workStartHour, workEndHour,
                   bufferMinutes, searchEndDate, currentTryTime, tryRef, slot,
                   iters>>

CommitFailure_Aborts ==
    /\ pc = "finding" /\ fpc = "done" /\ slot.found
    /\ UNCHANGED <<runs, client, extra, stageVars, auth>>
    /\ unscheduledSubtasks' =
          Append(unscheduledSubtasks, [subtask |-> idx, reason |-> "Calendar API error"])
    /\ nextAvailableStartTime' =
          setMinutes(nextAvailableStartTime, getMinutes(nextAvailableStartTime) + 1)
    /\ busyTimes' = NudgeBusy(busyTimes, cursorRef, nextAvailableStartTime)
    /\ idx' = idx + 1
    /\ pc' = "done"
    /\ fpc' = "idle"
    /\ UNCHANGED <<searchRangeStart, searchRangeEnd, subtasks, initialBusy,
                   cursorRef, scheduledEvents>>
    /\ UNCHANGED <<searchStartTime, durationMinutes, workStartHour, workEndHour,
                   bufferMinutes, searchEndDate, currentTryTime, tryRef, slot,
                   iters>>

CommitFailure_CursorToSlotEnd ==
    /\ pc = "finding" /\ fpc = "done" /\ slot.found
    /\ UNCHANGED <<runs, client, extra, stageVars, auth>>
    /\ unscheduledSubtasks' =
          Append(unscheduledSubtasks, [subtask |-> idx, reason |-> "Calendar API error"])
    /\ nextAvailableStartTime' = slot.end
    /\ busyTimes' = busyTimes
    /\ idx' = idx + 1
    /\ pc' = "loop"
    /\ fpc' = "idle"
    /\ UNCHANGED <<searchRangeStart, searchRangeEnd, subtasks, initialBusy,
                   cursorRef, scheduledEvents>>
    /\ UNCHANGED <<searchStartTime, durationMinutes, workStartHour, workEndHour,
                   bufferMinutes, searchEndDate, currentTryTime, tryRef, slot,
                   iters>>

\* lines 295-299: createCalendarEvent rejected.
CommitFailure ==
    /\ pc = "finding" /\ fpc = "done" /\ slot.found
    /\ UNCHANGED <<runs, client, extra, stageVars, auth>>
    /\ unscheduledSubtasks' =
          Append(unscheduledSubtasks, [subtask |-> idx, reason |-> "Calendar API error"])
    /\ nextAvailableStartTime' =
          setMinutes(nextAvailableStartTime, getMinutes(nextAvailableStartTime) + 1)
    /\ busyTimes' = NudgeBusy(busyTimes, cursorRef, nextAvailableStartTime)
    /\ idx' = idx + 1
    /\ pc' = "loop"
    /\ fpc' = "idle"
    /\ UNCHANGED <<searchRangeStart, searchRangeEnd, subtasks, initialBusy,
                   cursorRef, scheduledEvents>>
    /\ UNCHANGED <<searchStartTime, durationMinutes, workStartHour, workEndHour,
                   bufferMinutes, searchEndDate, currentTryTime, tryRef, slot,
                   iters>>

NoSlotFound_NotRecorded ==
    /\ pc = "finding" /\ fpc = "done" /\ ~slot.found
    /\ UNCHANGED <<runs, client, extra, stageVars, auth>>
    /\ idx' = idx + 1
    /\ pc' = "loop"
    /\ fpc' = "idle"
    /\ UNCHANGED <<searchRangeStart, searchRangeEnd, subtasks, initialBusy, busyTimes,
                   nextAvailableStartTime, cursorRef, scheduledEvents,
                   unscheduledSubtasks>>
    /\ UNCHANGED <<searchStartTime, durationMinutes, workStartHour, workEndHour,
                   bufferMinutes, searchEndDate, currentTryTime, tryRef, slot,
                   iters>>

NoSlotFound_AdvancesCursor ==
    /\ pc = "finding" /\ fpc = "done" /\ ~slot.found
    /\ UNCHANGED <<runs, client, extra, stageVars, auth>>
    /\ unscheduledSubtasks' =
          Append(unscheduledSubtasks, [subtask |-> idx, reason |-> "No slot found"])
    /\ nextAvailableStartTime' =
          setMinutes(nextAvailableStartTime, getMinutes(nextAvailableStartTime) + 1)
    /\ idx' = idx + 1
    /\ pc' = "loop"
    /\ fpc' = "idle"
    /\ UNCHANGED <<searchRangeStart, searchRangeEnd, subtasks, initialBusy, busyTimes,
                   cursorRef, scheduledEvents>>
    /\ UNCHANGED <<searchStartTime, durationMinutes, workStartHour, workEndHour,
                   bufferMinutes, searchEndDate, currentTryTime, tryRef, slot,
                   iters>>

\* lines 300-303: the finder returned null.
NoSlotFound ==
    /\ pc = "finding" /\ fpc = "done" /\ ~slot.found
    /\ UNCHANGED <<runs, client, extra, stageVars, auth>>
    /\ unscheduledSubtasks' =
          Append(unscheduledSubtasks, [subtask |-> idx, reason |-> "No slot found"])
    /\ idx' = idx + 1
    /\ pc' = "loop"
    /\ fpc' = "idle"
    /\ UNCHANGED <<searchRangeStart, searchRangeEnd, subtasks, initialBusy, busyTimes,
                   nextAvailableStartTime, cursorRef, scheduledEvents>>
    /\ UNCHANGED <<searchStartTime, durationMinutes, workStartHour, workEndHour,
                   bufferMinutes, searchEndDate, currentTryTime, tryRef, slot,
                   iters>>

\* extra as the handler receives it: the request has not been cancelled.
NotAborted == [signal |-> [aborted |-> FALSE]]

\* The caller cancels the request while the handler is in its loop: the
\* abort signal of extra is set. No line of the handler reads extra.
Abort ==
    /\ pc \in {"loop", "finding"}
    /\ ~extra.signal.aborted
    /\ extra' = [signal |-> [aborted |-> TRUE]]
    /\ UNCHANGED <<finderVars, handlerVars, busyTimes, runs, client, stageVars, auth>>

\* lines 305-320: the loop is over, the result is returned.
Finish ==
    /\ pc = "loop"
    /\ result' = SuccessResult
    /\ UNCHANGED <<runs, client, extra, documentUrl, resources, stages, auth>>
    /\ idx > Len(subtasks)
    /\ pc' = "done"
    /\ UNCHANGED <<searchRangeStart, searchRangeEnd, subtasks, idx, busyTimes,
                   initialBusy, nextAvailableStartTime, cursorRef,
                   scheduledEvents, unscheduledSubtasks>>
    /\ UNCHANGED finderVars

\* ---- the same handler, as a call proceeds from one await to the next

\* The local state of a call that has just been entered with a request.
NewRun(list) ==
    [pc |-> "start", subtasks |-> list, idx |-> 1,
     searchRangeStart |-> 0, searchRangeEnd |-> 0,
     busyTimes |-> <<>>, nextAvailableStartTime |-> 0, cursorRef |-> 0,
     slot |-> NullSlot, scheduledEvents |-> <<>>, unscheduledSubtasks |-> <<>>,
     calls |-> <<>>, answered |-> 0, finderLog |-> <<>>]

\* createCalendarEvent calls of a call of the handler that have not settled.
InFlight(run) == Len(run.calls) - run.answered

\* lines 249-262: the window is computed and getFreeBusy is awaited.
AwaitFreeBusy(run, now) ==
    [run EXCEPT !.pc = "freebusy",
                !.searchRangeStart = RangeStart(now),
                !.searchRangeEnd = RangeEnd(RangeStart(now))]

\* lines 264-268: the free/busy answer becomes busyTimes, the cursor is set.
StoreFreeBusy(run, resp) ==
    [run EXCEPT !.busyTimes = resp,
                !.nextAvailableStartTime = run.searchRangeStart,
                !.cursorRef = 0]

\* lines 272-280: findEarliestFitSlot is called for the request at idx;
\* finderLog keeps what the call was made with.
WithSlot(run) ==
    [run EXCEPT
        !.slot = findEarliestFitSlot(run.nextAvailableStartTime,
                                     run.subtasks[run.idx], run.busyTimes,
                                     SCHEDULING_WORK_DAY_START_HOUR,
                                     SCHEDULING_WORK_DAY_END_HOUR,
                                     SCHEDULING_BUFFER_MINUTES,
                                     run.searchRangeEnd),
        !.finderLog = Append(@, [idx |-> run.idx, inflight |-> InFlight(run),
                                 busyTimes |-> run.busyTimes])]

\* lines 300-303 in a call's local state.
RecordNoSlot(run) ==
    [run EXCEPT
        !.unscheduledSubtasks =
            Append(@, [subtask |-> run.idx, reason |-> "No slot found"]),
        !.idx = @ + 1]

RECURSIVE RunLoop_NoAwait(_)
RunLoop_NoAwait(run) ==
    IF run.idx > Len(run.subtasks)
    THEN [run EXCEPT !.pc = IF InFlight(run) > 0 THEN "commit" ELSE "done"]
    ELSE IF WithSlot(run).slot.found
         THEN RunLoop_NoAwait([WithSlot(run) EXCEPT !.calls = Append(@, run.idx),
                                                    !.idx = @ + 1])
         ELSE RunLoop_NoAwait(RecordNoSlot(WithSlot(run)))

RECURSIVE RunLoop(_)
\* lines 271-304: the for loop from its head to the next await or its end.
RunLoop(run) ==
    IF run.idx > Len(run.subtasks)
    THEN [run EXCEPT !.pc = "done"]
    ELSE IF WithSlot(run).slot.found
         THEN [WithSlot(run) EXCEPT !.pc = "commit", !.calls = Append(@, run.idx)]
         ELSE RunLoop(RecordNoSlot(WithSlot(run)))

\* lines 289-294 in a call's local state.
Resolved(run) ==
    [run EXCEPT
        !.answered = @ + 1,
        !.scheduledEvents = Append(@, [subtask |-> run.idx, slot |-> run.slot]),
        !.busyTimes = PushBusy(@, run.slot, Len(run.scheduledEvents) + 1),
        !.nextAvailableStartTime = BusySlotEnd(run.slot),
        !.cursorRef = Len(run.scheduledEvents) + 1,
        !.idx = @ + 1]

\* lines 295-299 in a call's local state.
Rejected(run) ==
    [run EXCEPT
        !.answered = @ + 1,
        !.unscheduledSubtasks =
            Append(@, [subtask |-> run.idx, reason |-> "Calendar API error"]),
        !.nextAvailableStartTime =
            setMinutes(@, getMinutes(run.nextAvailableStartTime) + 1),
        !.busyTimes = NudgeBusy(@, run.cursorRef, run.nextAvailableStartTime),
        !.idx = @ + 1]

\* The calls of the handler in progress.
Runs == {1, 2}

MaxRunSubtasks == 2

RunDurations == {60, 450}

RunSubtaskLists ==
    UNION {[1..n -> RunDurations] : n \in 0..MaxRunSubtasks}

\* new Date() in a call: Sunday or Thursday afternoon.
RunNowInstants == {At(6, 14, 30), At(10, 14, 30)}

RunFreeBusyResponses(s) ==
    { <<>>,
      <<Busy(s, s + 480)>>,
      <<Busy(s + 180, s + 240), Busy(s, s + 60)>> }

Locals_Shared(r) == runs[1]

\* The bindings of the handler's const and let declarations (lines 209-269)
\* that call r works on: those made by that call.
Locals(r) == runs[r]

\* None of the single-call variables moves.
SingleCallFrame ==
    UNCHANGED <<finderVars, handlerVars, busyTimes, client, extra, stageVars, auth>>

RunStart ==
    \E r \in Runs :
        /\ Locals(r).pc = "start"
        /\ \E now \in RunNowInstants :
              runs' = [runs EXCEPT ![r] = AwaitFreeBusy(Locals(r), now)]
        /\ SingleCallFrame

RunFreeBusyAnswer ==
    \E r \in Runs :
        /\ Locals(r).pc = "freebusy"
        /\ \E resp \in RunFreeBusyResponses(Locals(r).searchRangeStart) :
              runs' = [runs EXCEPT ![r] = RunLoop(StoreFreeBusy(Locals(r), resp))]
        /\ SingleCallFrame

RunCommitResolved ==
    \E r \in Runs :
        /\ Locals(r).pc = "commit"
        /\ runs' = [runs EXCEPT ![r] = RunLoop(Resolved(Locals(r)))]
        /\ SingleCallFrame

RunCommitRejected ==
    \E r \in Runs :
        /\ Locals(r).pc = "commit"
        /\ runs' = [runs EXCEPT ![r] = RunLoop(Rejected(Locals(r)))]
        /\ SingleCallFrame

----------------------------------------------------------------------------
(* The command-line client: main() and askForConfirmation *)

\* A line typed at the prompt, as a sequence of characters.
Answers ==
    { <<>>, <<"y">>, <<"Y">>, <<"n">>, <<"N">>, <<" ", "n">>, <<"N", " ">>,
      <<"n", "o">>, <<"x">> }

RECURSIVE trimStart(_)
trimStart(str) ==
    IF str # <<>> /\ Head(str) = " " THEN trimStart(Tail(str)) ELSE str

RECURSIVE trimEnd(_)
trimEnd(str) ==
    IF str # <<>> /\ str[Len(str)] = " "
    THEN trimEnd(SubSeq(str, 1, Len(str) - 1))
    ELSE str

\* String.prototype.trim
trim(str) == trimEnd(trimStart(str))

\* String.prototype.toLowerCase, on the letters that occur in Answers.
toLowerCase(str) ==
    [i \in 1..Len(str) |->
        IF str[i] = "N" THEN "n" ELSE IF str[i] = "Y" THEN "y" ELSE str[i]]

askForConfirmation_CaseSensitive(answer) == trim(answer) # <<"n">>

\* answer.trim().toLowerCase() !== 'n'
askForConfirmation(answer) == toLowerCase(trim(answer)) # <<"n">>

\* process.argv[2]
TaskDescriptions == {"", "prepare the meeting"}

\* subtasksToSchedule: null, or the value parsed from plan_task's answer.
NullSubtasks == [isNull |-> TRUE, value |-> <<>>]

Parsed(list) == [isNull |-> FALSE, value |-> list]

\* The text plan_task returns for a subtask list: JSON.stringify(subtasks).
JsonText(list) == [type |-> "text", valid |-> TRUE, value |-> list]

\* What the plan_task call may resolve to: an error result, a content that is
\* no array or an empty one, a text item holding a list, a text item that is
\* not JSON, a json item holding a list, an item of another type.
PlanResults ==
    {[isError |-> TRUE, isArray |-> TRUE, content |-> <<>>],
     [isError |-> FALSE, isArray |-> FALSE, content |-> <<>>],
     [isError |-> FALSE, isArray |-> TRUE, content |-> <<>>],
     [isError |-> FALSE, isArray |-> TRUE,
      content |-> <<[type |-> "text", valid |-> FALSE, value |-> <<>>]>>],
     [isError |-> FALSE, isArray |-> TRUE,
      content |-> <<[type |-> "image", valid |-> FALSE, value |-> <<>>]>>]}
    \cup {[isError |-> FALSE, isArray |-> TRUE, content |-> <<JsonText(list)>>] :
             list \in RunSubtaskLists}
    \cup {[isError |-> FALSE, isArray |-> TRUE,
           content |-> <<[type |-> "json", valid |-> TRUE, value |-> list]>>] :
             list \in RunSubtaskLists}

\* Lines 84-118: TRUE when main() throws on the plan result.
PlanThrows(planResult) ==
    \/ planResult.isError
    \/ ~planResult.isArray
    \/ planResult.content = <<>>
    \/ planResult.content[1].type = "text" /\ ~planResult.content[1].valid
    \/ planResult.content[1].type \notin {"text", "json"}

\* Lines 100-113: JSON.parse(contentItem.text), or contentItem.json.
ParsedSubtasks(planResult) == Parsed(planResult.content[1].value)

NewClient(task) ==
    [pc |-> "start", taskDescription |-> task, planResult |-> "none",
     subtasksToSchedule |-> NullSubtasks, asked |-> FALSE, answer |-> <<>>,
     calls |-> <<>>, scheduleIsError |-> FALSE, thrown |-> FALSE,
     exitCode |-> 0, closes |-> 0, ended |-> FALSE]

\* No variable of the handler or the finder moves.
ClientFrame ==
    UNCHANGED <<finderVars, handlerVars, busyTimes, runs, extra, stageVars, auth>>

\* Lines 23-27: no task description on the command line.
ClientUsageExit ==
    /\ client.pc = "start"
    /\ client.taskDescription = ""
    /\ client' = [client EXCEPT !.pc = "exit", !.exitCode = 1, !.ended = TRUE]
    /\ ClientFrame

\* Lines 168-178: the catch block of main.
Caught(c, at) == [c EXCEPT !.pc = at, !.thrown = TRUE, !.exitCode = 1]

\* Lines 69-72: client.connect resolves or rejects.
ClientConnect ==
    /\ client.pc = "start"
    /\ client.taskDescription # ""
    /\ \E ok \in BOOLEAN :
          client' = IF ok THEN [client EXCEPT !.pc = "connected"]
                          ELSE Caught(client, "failed")
    /\ ClientFrame

\* Lines 76-81: callTool plan_task.
ClientCallPlanTask ==
    /\ client.pc = "connected"
    /\ client' = [client EXCEPT
                     !.pc = "planning",
                     !.calls = Append(@, [name |-> "plan_task",
                                          taskDescription |-> client.taskDescription,
                                          subtasks |-> NullSubtasks])]
    /\ ClientFrame

\* Lines 83-125: the plan result is examined.
ClientPlanReturned ==
    /\ client.pc = "planning"
    /\ \E planResult \in PlanResults :
          client' =
             IF PlanThrows(planResult)
             THEN Caught([client EXCEPT !.planResult = planResult], "failed")
             ELSE [client EXCEPT
                     !.planResult = planResult,
                     !.subtasksToSchedule = ParsedSubtasks(planResult),
                     !.pc = IF \/ ParsedSubtasks(planResult).isNull
                               \/ Len(ParsedSubtasks(planResult).value) = 0
                            THEN "nothing" ELSE "confirm"]
    /\ ClientFrame

\* Lines 76-81: callTool plan_task rejects.
ClientPlanRejected ==
    /\ client.pc = "planning"
    /\ client' = Caught(client, "failed")
    /\ ClientFrame

\* Lines 127 and 8-19: rl.question rejects.
ClientQuestionRejected ==
    /\ client.pc = "confirm"
    /\ client' = Caught(client, "failed")
    /\ ClientFrame

\* Lines 127-132: the user is asked.
ClientAnswer ==
    /\ client.pc = "confirm"
    /\ \E answer \in Answers :
          client' = [client EXCEPT
                       !.asked = TRUE,
                       !.answer = answer,
                       !.pc = IF askForConfirmation(answer)
                              THEN "proceed" ELSE "cancelled"]
    /\ ClientFrame

\* Lines 135-142: callTool schedule_tasks.
ClientCallScheduleTasks ==
    /\ client.pc = "proceed"
    /\ client' = [client EXCEPT
                     !.pc = "scheduling",
                     !.calls = Append(@, [name |-> "schedule_tasks",
                                          taskDescription |-> client.taskDescription,
                                          subtasks |-> client.subtasksToSchedule])]
    /\ ClientFrame

\* Lines 144-166: the scheduling result, an error result or not, is printed.
ClientScheduleReturned ==
    /\ client.pc = "scheduling"
    /\ \E isError \in BOOLEAN :
          client' = [client EXCEPT !.pc = "done", !.scheduleIsError = isError]
    /\ ClientFrame

\* Lines 136-142: callTool schedule_tasks rejects.
ClientScheduleRejected ==
    /\ client.pc = "scheduling"
    /\ client' = Caught(client, "scheduleFailed")
    /\ ClientFrame

\* The positions at which control has left the try block of main.
LeftTry == {"failed", "nothing", "cancelled", "done", "scheduleFailed"}

ClientFinally_OnlyAfterCatch ==
    /\ client.pc \in LeftTry
    /\ ~client.ended
    /\ client' = [client EXCEPT
                     !.closes = IF client.thrown THEN @ + 1 ELSE @,
                     !.ended = TRUE]
    /\ ClientFrame

\* Lines 179-186: the finally block; transport.close() is awaited and main
\* ends.
ClientFinally ==
    /\ client.pc \in LeftTry
    /\ ~client.ended
    /\ client' = [client EXCEPT !.closes = @ + 1, !.ended = TRUE]
    /\ ClientFrame

\* ---- authorize (client.ts 134-212)

\* A message is the sequence of the pieces it was put together from.
StartsWith(message, prefix) == Len(message) >= 1 /\ message[1] = prefix

\* What token.json may hold when authorize is called: nothing, text that is
\* not JSON, JSON that google.auth.fromJSON rejects, or a saved token.
TokenFiles == {"absent", "garbage", "unknown_type", "authorized_user"}

\* What the client-secret file may hold.
KeyFiles == {"absent", "installed", "web"}

\* What the awaited authenticate(...) may reject with: Errors and a value
\* that is not an Error.
FlowErrors ==
    {[isError |-> TRUE, message |-> <<"access_denied">>],
     [isError |-> TRUE, message |-> <<"Failed to authenticate", ": nested">>],
     [isError |-> FALSE, message |-> <<"timeout">>]}

\* No client (null).
NullClient == [isNull |-> TRUE, from |-> "none"]

NoOutcome == [kind |-> "none", client |-> NullClient, message |-> <<>>]

\* authorize is entered with the two files as they are.
NewAuthorize(token, keys) ==
    [pc |-> "start", tokenFile |-> token, keyFile |-> keys,
     client |-> NullClient, flowStarted |-> FALSE, unlinkAttempts |-> 0,
     saved |-> FALSE, outcome |-> NoOutcome]

\* lines 134-144: the token file is read and parsed; null on any failure.
loadSavedCredentialsIfExist(token) ==
    IF token = "authorized_user"
    THEN [isNull |-> FALSE, from |-> "token.json"]
    ELSE NullClient

\* err instanceof Error ? err.message : String(err)
MessageOf(err) == err.message

FailedToAuthenticate_Bare(err) == MessageOf(err)

\* line 210: the error authorize throws.
FailedToAuthenticate(err) == <<"Failed to authenticate", ": ">> \o MessageOf(err)

\* lines 208-211: the catch block around the interactive flow.
Thrown(a, err) ==
    [a EXCEPT !.pc = "thrown",
              !.outcome = [kind |-> "error", client |-> NullClient,
                           message |-> FailedToAuthenticate(err)]]

Returned_(a, c) ==
    [a EXCEPT !.pc = "returned",
              !.outcome = [kind |-> "client", client |-> c, message |-> <<>>]]

\* No variable of the handler, the finder or the client moves.
AuthFrame ==
    UNCHANGED <<finderVars, handlerVars, busyTimes, runs, client, extra, stageVars>>

\* line 172: let client = await loadSavedCredentialsIfExist().
AuthLoad ==
    /\ auth.pc = "start"
    /\ auth' = [auth EXCEPT
                   !.client = loadSavedCredentialsIfExist(auth.tokenFile),
                   !.pc = IF loadSavedCredentialsIfExist(auth.tokenFile).isNull
                          THEN "flow" ELSE "verify"]
    /\ AuthFrame

\* lines 175-179: getAccessToken resolves, the saved client is returned.
AuthTokenValid ==
    /\ auth.pc = "verify"
    /\ auth' = Returned_(auth, auth.client)
    /\ AuthFrame

\* lines 180-181: getAccessToken rejects.
AuthTokenInvalid ==
    /\ auth.pc = "verify"
    /\ auth' = [auth EXCEPT !.pc = "unlink"]
    /\ AuthFrame

\* lines 182-190: fs.unlink(TOKEN_PATH) resolves or rejects; either way the
\* client is dropped and the flow follows.
AuthUnlink ==
    /\ auth.pc = "unlink"
    /\ \E ok \in BOOLEAN :
          auth' = [auth EXCEPT
                     !.unlinkAttempts = @ + 1,
                     !.tokenFile = IF ok THEN "absent" ELSE @,
                     !.client = NullClient,
                     !.pc = "flow"]
    /\ AuthFrame

\* lines 195-206: authenticate resolves, with credentials or without; without
\* them line 206 throws into the catch block of 208.
AuthFlowResolved ==
    /\ auth.pc = "flow"
    /\ auth.keyFile # "absent"
    /\ \E credentials \in BOOLEAN :
          auth' =
             IF credentials
             THEN [auth EXCEPT !.flowStarted = TRUE,
                               !.client = [isNull |-> FALSE, from |-> "flow"],
                               !.pc = "save"]
             ELSE Thrown([auth EXCEPT !.flowStarted = TRUE],
                         [isError |-> TRUE,
                          message |-> <<"Authentication failed",
                                        ": No credentials received.">>])
    /\ AuthFrame

\* lines 197-200 and 208-211: authenticate rejects.
AuthFlowRejected ==
    /\ auth.pc = "flow"
    /\ \E err \in FlowErrors :
          auth' = Thrown([auth EXCEPT !.flowStarted = TRUE], err)
    /\ AuthFrame

AuthSaveResolved_NotWritten ==
    /\ auth.pc = "save"
    /\ auth.keyFile # "absent"
    /\ auth' = Returned_(auth, auth.client)
    /\ AuthFrame

\* lines 202-204 and 149-160: saveCredentials reads the keys, writes the token
\* file and resolves; the client of the flow is returned.
AuthSaveResolved ==
    /\ auth.pc = "save"
    /\ auth.keyFile # "absent"
    /\ auth' = Returned_([auth EXCEPT !.tokenFile = "authorized_user",
                                      !.saved = TRUE],
                         auth.client)
    /\ AuthFrame

\* lines 161-165 and 208-211: reading the keys or writing the token file
\* fails; saveCredentials throws and the catch block of 208 rethrows.
AuthSaveRejected ==
    /\ auth.pc = "save"
    /\ auth' = Thrown(auth, [isError |-> TRUE,
                             message |-> <<"Failed to save credentials">>])
    /\ AuthFrame

\* The handler is entered with the request's subtasks.
Init ==
    /\ subtasks \in SubtaskLists
    /\ pc = "entered"
    /\ idx = 1
    /\ searchRangeStart = 0 /\ searchRangeEnd = 0
    /\ busyTimes = <<>> /\ initialBusy = <<>>
    /\ nextAvailableStartTime = 0 /\ cursorRef = 0
    /\ scheduledEvents = <<>> /\ unscheduledSubtasks = <<>>
    /\ runs = [r \in Runs |-> NewRun(<<>>)]
    /\ extra = NotAborted
    /\ auth = NewAuthorize("absent", "absent")
    /\ documentUrl = "" /\ resources = {} /\ stages = <<>> /\ result = NoResult
    /\ client = NewClient("")
    /\ searchStartTime = 0 /\ durationMinutes = 0
    /\ workStartHour = 0 /\ workEndHour = 0
    /\ bufferMinutes = 0 /\ searchEndDate = 0
    /\ currentTryTime = 0 /\ tryRef = OwnDate
    /\ fpc = "idle" /\ slot = NullSlot /\ iters = 0

Next ==
    \/ AuthorizeResolved
    \/ AuthorizeRejected
    \/ CreateDocsResolved
    \/ CreateDocsRejected
    \/ GetFreeBusy
    \/ GetFreeBusyRejected
    \/ CallFinder
    \/ LoopExit
    \/ DeadlineReturn
    \/ StartAdvance
    \/ EndAdvance
    \/ ConflictJump
    \/ Found
    \/ CommitSuccess
    \/ CommitFailure
    \/ NoSlotFound
    \/ Abort
    \/ Finish

Spec == Init /\ [][Next]_vars

\* Two calls of the handler are entered, each with its own request.
RunsInit ==
    /\ runs \in [Runs -> {NewRun(list) : list \in RunSubtaskLists}]
    /\ extra = NotAborted
    /\ auth = NewAuthorize("absent", "absent")
    /\ documentUrl = "" /\ resources = {} /\ stages = <<>> /\ result = NoResult
    /\ client = NewClient("")
    /\ subtasks = <<>>
    /\ pc = "idle"
    /\ idx = 1
    /\ searchRangeStart = 0 /\ searchRangeEnd = 0
    /\ busyTimes = <<>> /\ initialBusy = <<>>
    /\ nextAvailableStartTime = 0 /\ cursorRef = 0
    /\ scheduledEvents = <<>> /\ unscheduledSubtasks = <<>>
    /\ searchStartTime = 0 /\ durationMinutes = 0
    /\ workStartHour = 0 /\ workEndHour = 0
    /\ bufferMinutes = 0 /\ searchEndDate = 0
    /\ currentTryTime = 0 /\ tryRef = OwnDate
    /\ fpc = "idle" /\ slot = NullSlot /\ iters = 0

RunsNext ==
    \/ RunStart
    \/ RunFreeBusyAnswer
    \/ RunCommitResolved
    \/ RunCommitRejected

\* The calls interleave at their awaits; between two awaits a call runs alone.
RunsSpec == RunsInit /\ [][RunsNext]_vars

\* main() is entered.
ClientInit ==
    /\ client \in {NewClient(task) : task \in TaskDescriptions}
    /\ runs = [r \in Runs |-> NewRun(<<>>)]
    /\ extra = NotAborted
    /\ auth = NewAuthorize("absent", "absent")
    /\ documentUrl = "" /\ resources = {} /\ stages = <<>> /\ result = NoResult
    /\ subtasks = <<>>
    /\ pc = "idle"
    /\ idx = 1
    /\ searchRangeStart = 0 /\ searchRangeEnd = 0
    /\ busyTimes = <<>> /\ initialBusy = <<>>
    /\ nextAvailableStartTime = 0 /\ cursorRef = 0
    /\ scheduledEvents = <<>> /\ unscheduledSubtasks = <<>>
    /\ searchStartTime = 0 /\ durationMinutes = 0
    /\ workStartHour = 0 /\ workEndHour = 0
    /\ bufferMinutes = 0 /\ searchEndDate = 0
    /\ currentTryTime = 0 /\ tryRef = OwnDate
    /\ fpc = "idle" /\ slot = NullSlot /\ iters = 0

ClientNext ==
    \/ ClientUsageExit
    \/ ClientConnect
    \/ ClientCallPlanTask
    \/ ClientPlanReturned
    \/ ClientAnswer
    \/ ClientCallScheduleTasks
    \/ ClientScheduleReturned
    \/ ClientPlanRejected
    \/ ClientQuestionRejected
    \/ ClientScheduleRejected
    \/ ClientFinally

ClientSpec == ClientInit /\ [][ClientNext]_vars

\* authorize is called.
AuthInit ==
    /\ auth \in {NewAuthorize(token, keys) : token \in TokenFiles, keys \in KeyFiles}
    /\ client = NewClient("")
    /\ runs = [r \in Runs |-> NewRun(<<>>)]
    /\ extra = NotAborted
    /\ documentUrl = "" /\ resources = {} /\ stages = <<>> /\ result = NoResult
    /\ subtasks = <<>>
    /\ pc = "idle"
    /\ idx = 1
    /\ searchRangeStart = 0 /\ searchRangeEnd = 0
    /\ busyTimes = <<>> /\ initialBusy = <<>>
    /\ nextAvailableStartTime = 0 /\ cursorRef = 0
    /\ scheduledEvents = <<>> /\ unscheduledSubtasks = <<>>
    /\ searchStartTime = 0 /\ durationMinutes = 0
    /\ workStartHour = 0 /\ workEndHour = 0
    /\ bufferMinutes = 0 /\ searchEndDate = 0
    /\ currentTryTime = 0 /\ tryRef = OwnDate
    /\ fpc = "idle" /\ slot = NullSlot /\ iters = 0

AuthNext ==
    \/ AuthLoad
    \/ AuthTokenValid
    \/ AuthTokenInvalid
    \/ AuthUnlink
    \/ AuthFlowResolved
    \/ AuthFlowRejected
    \/ AuthSaveResolved
    \/ AuthSaveRejected

AuthSpec == AuthInit /\ [][AuthNext]_vars

----------------------------------------------------------------------------
(* findEarliestFitSlot on its own, over a range of arguments *)

FinderCursors ==
    { At(0, 8, 0), At(0, 9, 0), At(0, 10, 0), At(0, 16, 50),
      At(4, 8, 0), At(4, 16, 0), At(5, 10, 0), At(6, 10, 0) }

FinderDurations == {-30, 30, 60, 480, 600, 43185}

FinderBuffers == {0, 15}

\* <<workStartHour, workEndHour>>
FinderPolicies == {<<9, 17>>, <<10, 12>>}

FinderDeadlines == {At(0, 9, 30), At(0, 17, 0), At(7, 17, 0), At(35, 17, 0)}

FinderBusyLists ==
    { <<>>,
      <<Busy(At(0, 9, 0), At(0, 17, 0))>>,
      <<Busy(At(0, 9, 0), At(1, 3, 0))>>,
      <<Busy(At(0, 9, 0), At(0, 10, 0)), Busy(At(0, 10, 0), At(0, 11, 0))>>,
      <<Busy(At(0, 11, 0), At(0, 12, 0)), Busy(At(0, 9, 0), At(0, 9, 30))>>,
      <<Busy(At(0, 9, 0), At(0, 12, 0)), Busy(At(0, 9, 30), At(0, 10, 0))>>,
      <<Busy(At(0, 9, 0), At(0, 10, 0)), Busy(At(0, 11, 15), At(0, 12, 0))>>,
      <<Busy(At(0, 9, 0), At(1, 3, 0)), Busy(At(0, 9, 0), At(1, 9, 0))>> }

\* The state on entry to the while loop (scheduler.ts 47-48).
FinderInit ==
    /\ searchStartTime \in FinderCursors
    /\ durationMinutes \in FinderDurations
    /\ bufferMinutes \in FinderBuffers
    /\ \E p \in FinderPolicies : workStartHour = p[1] /\ workEndHour = p[2]
    /\ searchEndDate \in FinderDeadlines
    /\ busyTimes \in FinderBusyLists
    /\ currentTryTime = searchStartTime
    /\ tryRef = NewDate(SearchStartDate)
    /\ fpc = "loop" /\ slot = NullSlot /\ iters = 0
    /\ pc = "finder" /\ idx = 1 /\ subtasks = <<>>
    /\ searchRangeStart = 0 /\ searchRangeEnd = 0
    /\ initialBusy = busyTimes
    /\ nextAvailableStartTime = searchStartTime /\ cursorRef = 0
    /\ scheduledEvents = <<>> /\ unscheduledSubtasks = <<>>
    /\ runs = [r \in Runs |-> NewRun(<<>>)]
    /\ extra = NotAborted
    /\ auth = NewAuthorize("absent", "absent")
    /\ documentUrl = "" /\ resources = {} /\ stages = <<>> /\ result = NoResult
    /\ client = NewClient("")

FinderSpec == FinderInit /\ [][FinderStep]_vars

\* The loop is synchronous code: an enabled step is taken.
FinderLive == FinderSpec /\ WF_vars(FinderStep)

----------------------------------------------------------------------------
(* Properties of one scheduling run (Spec) *)

\* Half-open intervals [s1, e1) and [s2, e2) share an instant.
IntervalsOverlap(s1, e1, s2, e2) == s1 < e2 /\ s2 < e1

\* The slots placed so far, each with its trailing buffer.
PlacedStart(k) == scheduledEvents[k].slot.start
PlacedEndBuffered(k) == scheduledEvents[k].slot.end + SCHEDULING_BUFFER_MINUTES

\* C1. Non-overlap: no two placed slots, each extended by the buffer, overlap,
\* and no placed slot extended by the buffer overlaps an interval of the
\* initial busy snapshot, whatever outcomes the run has had so far.
C1_NonOverlap ==
    /\ \A i, j \in 1..Len(scheduledEvents) :
          i < j => ~IntervalsOverlap(PlacedStart(i), PlacedEndBuffered(i),
                                     PlacedStart(j), PlacedEndBuffered(j))
    /\ \A i \in 1..Len(scheduledEvents) : \A b \in 1..Len(initialBusy) :
          ~IntervalsOverlap(PlacedStart(i), PlacedEndBuffered(i),
                            initialBusy[b].start, initialBusy[b].end)

\* Two slots placed around a failed commit, with a non-empty snapshot.
C1_Witness ==
    /\ pc = "done"
    /\ \A i \in 1..Len(subtasks) : subtasks[i] > 0
    /\ Len(scheduledEvents) = 2
    /\ \E u \in 1..Len(unscheduledSubtasks) :
          /\ unscheduledSubtasks[u].reason = "Calendar API error"
          /\ scheduledEvents[1].subtask < unscheduledSubtasks[u].subtask
          /\ unscheduledSubtasks[u].subtask < scheduledEvents[2].subtask
    /\ initialBusy # <<>>

\* t is a weekday instant inside [startHour:00, endHour:00).
InOpeningHours(t, startHour, endHour) ==
    /\ DayIndex(t) % 7 < 5
    /\ At(DayIndex(t), startHour, 0) <= t
    /\ t < At(DayIndex(t), endHour, 0)

\* No interval of busy overlaps [t, e).
FreeOf(busy, t, e) ==
    \A b \in 1..Len(busy) : ~IntervalsOverlap(t, e, busy[b].start, busy[b].end)

\* The reserved interval [t, t + duration + buffer) of the request in hand is
\* free, lies inside the opening hours of t's day and ends by the deadline.
ReservedIntervalFits(t) ==
    /\ InOpeningHours(t, workStartHour, workEndHour)
    /\ t + durationMinutes + bufferMinutes <= At(DayIndex(t), workEndHour, 0)
    /\ t + durationMinutes + bufferMinutes <= searchEndDate
    /\ FreeOf(busyTimes, t, t + durationMinutes + bufferMinutes)

\* The request before the one in hand was placed (its commit succeeded).
PreviousWasPlaced ==
    /\ scheduledEvents # <<>>
    /\ scheduledEvents[Len(scheduledEvents)].subtask = idx - 1

PreviousSlot == scheduledEvents[Len(scheduledEvents)].slot

C10_WindowBound ==
    /\ \A k \in 1..Len(scheduledEvents) :
          /\ scheduledEvents[k].slot.start >= searchRangeStart
          /\ scheduledEvents[k].slot.end + SCHEDULING_BUFFER_MINUTES <= searchRangeEnd
    /\ (pc = "finding" /\ fpc = "done" /\ slot.found) =>
          /\ slot.start >= searchStartTime
          /\ slot.end + bufferMinutes <= searchEndDate
    /\ (pc = "finding" /\ fpc = "done"
          /\ currentTryTime + durationMinutes + bufferMinutes > searchEndDate)
       => ~slot.found

\* A 60-minute request is refused at a trial time inside open working hours,
\* because 60 + 15 minutes do not fit before the window's end.
C10_Witness ==
    /\ pc = "finding" /\ fpc = "done" /\ ~slot.found
    /\ durationMinutes = 60
    /\ InOpeningHours(currentTryTime, workStartHour, workEndHour)
    /\ currentTryTime + durationMinutes <= At(DayIndex(currentTryTime), workEndHour, 0)
    /\ FreeOf(busyTimes, currentTryTime, currentTryTime + 75)
    /\ currentTryTime + 75 > searchEndDate

----------------------------------------------------------------------------
(* Properties of findEarliestFitSlot (FinderSpec, FinderLive) *)

\* Calendar days from the cursor's day to the deadline's day (0 when the
\* deadline's day is earlier).
DaysToDeadline ==
    IF DayIndex(searchEndDate) >= DayIndex(searchStartTime)
    THEN DayIndex(searchEndDate) - DayIndex(searchStartTime)
    ELSE 0

\* C3. Termination: the search loop ends for every duration, busy list and
\* policy; an iteration that does not return moves the trial time strictly
\* forward; the loop body runs at most (number of busy intervals) + (calendar
\* days from cursor to deadline) + 1 times.
C3_Termination ==
    /\ <>(fpc = "done")
    /\ [][fpc' = "loop" => currentTryTime' > currentTryTime]_vars
    /\ [](iters <= Len(busyTimes) + DaysToDeadline + 1)

\* A search that ended after a conflict jump and several day advances.
C3_Witness ==
    /\ fpc = "done"
    /\ busyTimes # <<>>
    /\ iters >= 4
    /\ currentTryTime > searchStartTime

\* The search has returned, for a request within the finder's precondition.
Returned == fpc = "done" /\ durationMinutes > 0

\* C2. Within-hours: a returned slot starts inside [startHour:00, endHour:00)
\* of an eligible weekday and ends on that same calendar day, no later than
\* endHour:00.
C2_WithinHours ==
    (Returned /\ slot.found) =>
        /\ InOpeningHours(slot.start, workStartHour, workEndHour)
        /\ DayIndex(slot.end) = DayIndex(slot.start)
        /\ slot.end <= At(DayIndex(slot.start), workEndHour, 0)

\* t is acceptable for the request in hand: in working hours on an eligible
\* weekday, t + duration not past endHour and on the same day,
\* t + duration + buffer <= deadline, [t, t + duration + buffer) free.
Acceptable(t) ==
    /\ InOpeningHours(t, workStartHour, workEndHour)
    /\ t + durationMinutes <= At(DayIndex(t), workEndHour, 0)
    /\ t + durationMinutes + bufferMinutes <= searchEndDate
    /\ FreeOf(busyTimes, t, t + durationMinutes + bufferMinutes)

\* C4. Earliest fit: when a slot starting at s is returned, no instant t with
\* cursor <= t < s is acceptable.
C4_EarliestFit ==
    (Returned /\ slot.found) =>
        \A t \in searchStartTime..(slot.start - 1) : ~Acceptable(t)

\* C5. Null is returned only if no acceptable instant exists at or after the
\* cursor (an acceptable instant ends by the deadline, so none lies past it).
C5_NullOnlyIfNoSlot ==
    (Returned /\ ~slot.found) =>
        \A t \in searchStartTime..searchEndDate : ~Acceptable(t)

\* The opening instant of t's day.
OpeningOf(t) == At(DayIndex(t), workStartHour, 0)

\* C6. When the cursor lies on an eligible weekday before startHour and the
\* opening of that day is free, the slot found starts at startHour:00 of that
\* same day.
C6_OpeningOfCursorDay ==
    (/\ Returned
     /\ DayIndex(searchStartTime) % 7 < 5
     /\ searchStartTime < OpeningOf(searchStartTime)
     /\ Acceptable(OpeningOf(searchStartTime))
     /\ OpeningOf(searchStartTime) + durationMinutes + bufferMinutes
           <= At(DayIndex(searchStartTime), workEndHour, 0))
    => /\ slot.found
       /\ slot.start = OpeningOf(searchStartTime)

\* The opening instant of the first eligible weekday after t's day.
NextWeekdayOpening(t) ==
    LET d == DayIndex(t)
        n == IF d % 7 = 4 THEN d + 3 ELSE IF d % 7 = 5 THEN d + 2 ELSE d + 1
    IN  At(n, workStartHour, 0)

\* One busy interval covers every working hour of t's day.
DayFullyBusy(t) ==
    \E b \in 1..Len(busyTimes) :
        /\ busyTimes[b].start <= At(DayIndex(t), workStartHour, 0)
        /\ busyTimes[b].end >= At(DayIndex(t), workEndHour, 0)

\* C7. When every working hour of the cursor's day is covered by a busy
\* interval and the opening of the next eligible weekday is free for the
\* request and its buffer, the slot found starts at startHour:00 of that next
\* eligible weekday.
C7_NextWeekdayOpening ==
    (/\ Returned
     /\ DayFullyBusy(searchStartTime)
     /\ Acceptable(NextWeekdayOpening(searchStartTime))
     /\ NextWeekdayOpening(searchStartTime) + durationMinutes + bufferMinutes
           <= At(DayIndex(NextWeekdayOpening(searchStartTime)), workEndHour, 0))
    => /\ slot.found
       /\ slot.start = NextWeekdayOpening(searchStartTime)

\* C8. A request longer than the working day (endHour - startHour hours) is
\* never given a slot: the search ends with null.
C8_LongerThanWorkingDay ==
    (fpc = "done" /\ durationMinutes > (workEndHour - workStartHour) * 60)
        => ~slot.found

\* C11. Closing-time edge: the closing-time test looks at the task's end
\* without the buffer. A request whose task would end exactly at endHour:00
\* when started at the cursor, the cursor being in hours, the reserved interval
\* free and inside the window, gets the slot at the cursor, whatever the buffer;
\* and no returned slot ends one minute past endHour:00.
C11_ClosingTimeEdge ==
    /\ (/\ Returned
        /\ InOpeningHours(searchStartTime, workStartHour, workEndHour)
        /\ searchStartTime + durationMinutes
              = At(DayIndex(searchStartTime), workEndHour, 0)
        /\ searchStartTime + durationMinutes + bufferMinutes <= searchEndDate
        /\ FreeOf(busyTimes, searchStartTime,
                  searchStartTime + durationMinutes + bufferMinutes))
       => /\ slot.found
          /\ slot.start = searchStartTime
    /\ (Returned /\ slot.found)
       => slot.end # At(DayIndex(slot.start), workEndHour, 1)

----------------------------------------------------------------------------
(* Properties of the scheduling loop (Spec) *)

\* The requests recorded as scheduled, and as unscheduled, so far.
PlacedRequests == {scheduledEvents[k].subtask : k \in 1..Len(scheduledEvents)}
UnplacedRequests ==
    {unscheduledSubtasks[k].subtask : k \in 1..Len(unscheduledSubtasks)}

\* C12. Order preservation: the requests handled so far are exactly the first
\* idx - 1, each with one outcome, recorded in request order in its list; when
\* the loop has ended every request has its outcome, so the scheduled count
\* plus the unscheduled count is the number of requests.
C12_OrderPreservation ==
    /\ PlacedRequests \cup UnplacedRequests = 1..(idx - 1)
    /\ PlacedRequests \cap UnplacedRequests = {}
    /\ Len(scheduledEvents) + Len(unscheduledSubtasks) = idx - 1
    /\ \A j, k \in 1..Len(scheduledEvents) :
          j < k => scheduledEvents[j].subtask < scheduledEvents[k].subtask
    /\ \A j, k \in 1..Len(unscheduledSubtasks) :
          j < k => unscheduledSubtasks[j].subtask < unscheduledSubtasks[k].subtask
    /\ pc = "done" =>
          Len(scheduledEvents) + Len(unscheduledSubtasks) = Len(subtasks)

\* A finished run of three requests with all three kinds of outcome.
C12_Witness ==
    /\ pc = "done"
    /\ Len(subtasks) = 3
    /\ Len(scheduledEvents) = 1
    /\ \E u, v \in 1..Len(unscheduledSubtasks) :
          /\ unscheduledSubtasks[u].reason = "No slot found"
          /\ unscheduledSubtasks[v].reason = "Calendar API error"

\* C13. Monotonic cursor: no step of a run moves the search cursor
\* (nextAvailableStartTime) to an earlier instant.
C13_MonotonicCursor ==
    [][nextAvailableStartTime' >= nextAvailableStartTime]_vars

\* The same, for runs whose requests all have a positive duration.
C13_MonotonicCursorPositive ==
    [][(\A i \in 1..Len(subtasks) : subtasks[i] > 0)
          => nextAvailableStartTime' >= nextAvailableStartTime]_vars

\* The step that ends the handling of request idx with the finder's null.
NotFoundStep == pc = "finding" /\ fpc = "done" /\ ~slot.found /\ pc' = "loop"

\* C14: when the finder returns null for a request, the request is appended to
\* the unscheduled list with the reason "No slot found", and the cursor and
\* the busy list are what they were when the finder was called for it: the
\* finder's own steps write neither, and the no-slot branch writes neither.
C14_NotFoundLeavesState ==
    /\ [][NotFoundStep =>
            /\ unscheduledSubtasks' =
                  Append(unscheduledSubtasks,
                         [subtask |-> idx, reason |-> "No slot found"])
            /\ scheduledEvents' = scheduledEvents
            /\ nextAvailableStartTime' = nextAvailableStartTime
            /\ nextAvailableStartTime' = searchStartTime
            /\ busyTimes' = busyTimes]_vars
    /\ [][(pc = "finding" /\ pc' = "finding") =>
            /\ nextAvailableStartTime' = nextAvailableStartTime
            /\ busyTimes' = busyTimes]_vars
    /\ [](pc = "finding" => nextAvailableStartTime = searchStartTime)

\* A request with a positive duration has just been recorded as "No slot
\* found" while the busy list is not empty.
C14_Witness ==
    /\ pc = "loop" /\ idx > 1
    /\ subtasks[idx - 1] > 0
    /\ busyTimes # <<>>
    /\ unscheduledSubtasks # <<>>
    /\ unscheduledSubtasks[Len(unscheduledSubtasks)] =
          [subtask |-> idx - 1, reason |-> "No slot found"]

\* The step that ends the handling of request idx with a created event.
SuccessStep ==
    /\ pc = "finding" /\ fpc = "done" /\ slot.found
    /\ Len(scheduledEvents') = Len(scheduledEvents) + 1

\* How many elements of the busy list are the interval [s, e).
Occurrences(busy, s, e) ==
    Cardinality({i \in 1..Len(busy) : busy[i].start = s /\ busy[i].end = e})

\* The intervals of a busy list, as <<start, end>> pairs.
IntervalsOf(busy) == {<<busy[i].start, busy[i].end>> : i \in 1..Len(busy)}

\* C15: on commit success the request is appended to the scheduled list with
\* its slot, the busy list gains one occurrence of [slot.start, slot.end + 15)
\* and every other interval occurs in it as often as before, and the cursor
\* becomes slot.end + 15.
C15_CommitSuccess ==
    [][SuccessStep =>
         /\ scheduledEvents' =
               Append(scheduledEvents, [subtask |-> idx, slot |-> slot])
         /\ unscheduledSubtasks' = unscheduledSubtasks
         /\ nextAvailableStartTime' = slot.end + SCHEDULING_BUFFER_MINUTES
         /\ Len(busyTimes') = Len(busyTimes) + 1
         /\ \A p \in IntervalsOf(busyTimes) \cup IntervalsOf(busyTimes')
                      \cup {<<slot.start, slot.end + SCHEDULING_BUFFER_MINUTES>>} :
               Occurrences(busyTimes', p[1], p[2]) =
                  Occurrences(busyTimes, p[1], p[2])
                  + (IF p = <<slot.start, slot.end + SCHEDULING_BUFFER_MINUTES>>
                     THEN 1 ELSE 0)]_vars

\* A second request with a positive duration has just been placed, next to a
\* busy interval of the free/busy answer.
C15_Witness ==
    /\ pc = "loop" /\ idx > 1
    /\ subtasks[idx - 1] > 0
    /\ Len(scheduledEvents) = 2
    /\ scheduledEvents[2].subtask = idx - 1
    /\ initialBusy # <<>>
    /\ Len(busyTimes) = Len(initialBusy) + 2
    /\ nextAvailableStartTime = scheduledEvents[2].slot.end + SCHEDULING_BUFFER_MINUTES

\* The step that ends the handling of request idx with a rejected event.
FailureStep ==
    /\ pc = "finding" /\ fpc = "done" /\ slot.found /\ pc' = "loop"
    /\ Len(scheduledEvents') = Len(scheduledEvents)

\* C16: on commit failure for a found slot the request is appended to the
\* unscheduled list with the reason "Calendar API error", the cursor becomes
\* its previous value plus one minute, and the busy list gains no element:
\* its length and the start of each element stay what they were.
C16_CommitFailure ==
    [][FailureStep =>
         /\ unscheduledSubtasks' =
               Append(unscheduledSubtasks,
                      [subtask |-> idx, reason |-> "Calendar API error"])
         /\ scheduledEvents' = scheduledEvents
         /\ nextAvailableStartTime' = nextAvailableStartTime + 1
         /\ Len(busyTimes') = Len(busyTimes)
         /\ \A i \in 1..Len(busyTimes) : busyTimes'[i].start = busyTimes[i].start]_vars

\* A commit has just failed for a slot of positive duration that the finder
\* found later than the cursor: the cursor is one minute on, short of the
\* slot's start.
C16_Witness ==
    /\ pc = "loop" /\ idx > 1
    /\ subtasks[idx - 1] > 0
    /\ unscheduledSubtasks # <<>>
    /\ unscheduledSubtasks[Len(unscheduledSubtasks)] =
          [subtask |-> idx - 1, reason |-> "Calendar API error"]
    /\ slot.found /\ slot.start > searchStartTime
    /\ nextAvailableStartTime = searchStartTime + 1
    /\ nextAvailableStartTime < slot.start
    /\ busyTimes # <<>>

\* C17: intervals of the busy list are immutable and the list changes only
\* on a successful placement: once the free/busy answer is stored, every
\* interval of the list is still in it, with the same start and end, after
\* any step, and a commit failure or a null from the finder leaves each
\* element with the start and end it had.
C17_BusyImmutable ==
    /\ [][pc # "start" => IntervalsOf(busyTimes) \subseteq IntervalsOf(busyTimes')]_vars
    /\ [][(FailureStep \/ NotFoundStep) =>
            /\ Len(busyTimes') = Len(busyTimes)
            /\ \A i \in 1..Len(busyTimes) :
                  /\ busyTimes'[i].start = busyTimes[i].start
                  /\ busyTimes'[i].end = busyTimes[i].end]_vars

\* C18: the busy list never loses an interval and never shrinks one. Once the
\* free/busy answer is stored, its length never decreases and grows by one
\* on exactly the steps that place a request; on such a step every interval
\* occurs at least as often as before, and on any other step each element
\* keeps its start and its end is not earlier than it was.
C18_BusyNeverShrinks ==
    /\ [][pc # "start" =>
            /\ Len(busyTimes') >= Len(busyTimes)
            /\ SuccessStep =>
                  /\ Len(busyTimes') = Len(busyTimes) + 1
                  /\ \A p \in IntervalsOf(busyTimes) :
                        Occurrences(busyTimes', p[1], p[2]) >=
                           Occurrences(busyTimes, p[1], p[2])
            /\ ~SuccessStep =>
                  /\ Len(busyTimes') = Len(busyTimes)
                  /\ \A i \in 1..Len(busyTimes) :
                        /\ busyTimes'[i].start <= busyTimes[i].start
                        /\ busyTimes'[i].end >= busyTimes[i].end]_vars
    /\ [](pc # "start" =>
            Len(busyTimes) = Len(initialBusy) + Len(scheduledEvents))

\* After a placement and a failed commit behind it: the busy list holds the
\* free/busy answer and the placed interval, whose end has moved one minute
\* later.
C18_Witness ==
    /\ pc = "loop"
    /\ \A i \in 1..Len(subtasks) : subtasks[i] > 0
    /\ initialBusy # <<>>
    /\ scheduledEvents # <<>>
    /\ Len(busyTimes) = Len(initialBusy) + Len(scheduledEvents)
    /\ \E i \in 1..Len(busyTimes) :
          /\ busyTimes[i].endRef # 0
          /\ busyTimes[i].end =
                scheduledEvents[busyTimes[i].endRef].slot.end
                + SCHEDULING_BUFFER_MINUTES + 1

\* C19: a failure never aborts the batch and nothing is retried. The finder
\* is called for request idx with that request's duration and the request
\* index stays; the finder's return is followed by one step that records one
\* outcome for the request and moves on to the next request: a commit
\* outcome (scheduled or "Calendar API error") exactly when a slot was
\* found. The request index changes on no other step, and the run is over
\* only when every request has been through this.
C19_NoAbortNoRetry ==
    /\ [][(pc = "loop" /\ pc' = "finding") =>
            /\ idx \in 1..Len(subtasks)
            /\ idx' = idx
            /\ durationMinutes' = subtasks[idx]
            /\ fpc' = "loop"]_vars
    /\ [][(pc = "finding" /\ pc' # "finding") =>
            /\ fpc = "done"
            /\ pc' = "loop"
            /\ idx' = idx + 1
            /\ Len(scheduledEvents') + Len(unscheduledSubtasks') =
                  Len(scheduledEvents) + Len(unscheduledSubtasks) + 1
            /\ slot.found <=>
                  \/ Len(scheduledEvents') = Len(scheduledEvents) + 1
                  \/ /\ Len(unscheduledSubtasks') = Len(unscheduledSubtasks) + 1
                     /\ unscheduledSubtasks'[Len(unscheduledSubtasks')].reason =
                           "Calendar API error"]_vars
    /\ [][~(pc = "finding" /\ pc' # "finding") =>
            /\ idx' = idx
            /\ scheduledEvents' = scheduledEvents
            /\ unscheduledSubtasks' = unscheduledSubtasks]_vars
    /\ [](pc = "done" =>
            /\ idx = Len(subtasks) + 1
            /\ PlacedRequests \cup UnplacedRequests = 1..Len(subtasks))

\* A finished run of three requests in which the first request's commit
\* failed and the last request was placed all the same.
C19_Witness ==
    /\ pc = "done"
    /\ Len(subtasks) = 3
    /\ unscheduledSubtasks # <<>>
    /\ unscheduledSubtasks[1] = [subtask |-> 1, reason |-> "Calendar API error"]
    /\ scheduledEvents # <<>>
    /\ scheduledEvents[Len(scheduledEvents)].subtask = 3

\* A busy list in ascending order of start.
IsSortedByStart(busy) ==
    \A i \in 1..(Len(busy) - 1) : busy[i].start <= busy[i + 1].start

\* C20: at every call of the finder, and all through its run, the busy list
\* is sorted by start: from the free/busy answer on, and after every commit.
C20_SortedAtFinderCall ==
    pc = "finding" => IsSortedByStart(busyTimes)

\* The sort of the commit-success branch does its part: after a placement
\* the busy list is sorted.
C20_SortedAfterCommit ==
    (pc # "start" /\ scheduledEvents # <<>>) => IsSortedByStart(busyTimes)

----------------------------------------------------------------------------
(* Properties of findEarliestFitSlot as the handler calls it (Spec) *)

\* C21: findEarliestFitSlot is pure. While it runs, the trial time is a Date
\* object of its own, so that no step of it changes the cursor passed in or
\* any busy interval, and the slot it returns (whose start is that object)
\* shares no object with its arguments; and the result is a function of the
\* arguments, so that a call repeated with the same arguments returns the
\* same result: after a null for a request, the call for a next request of
\* the same duration, made with the same cursor and busy list, returns null
\* again.
C21_FinderIsPure ==
    /\ [](fpc # "idle" => tryRef = OwnDate)
    /\ [][fpc = "loop" =>
            /\ nextAvailableStartTime' = nextAvailableStartTime
            /\ searchStartTime' = searchStartTime
            /\ busyTimes' = busyTimes]_vars
    /\ [](fpc = "done" =>
            slot = findEarliestFitSlot(searchStartTime, durationMinutes,
                                       busyTimes, workStartHour, workEndHour,
                                       bufferMinutes, searchEndDate))
    /\ []((/\ pc = "finding" /\ fpc = "done" /\ idx > 1
            /\ subtasks[idx - 1] = subtasks[idx]
            /\ unscheduledSubtasks # <<>>
            /\ unscheduledSubtasks[Len(unscheduledSubtasks)] =
                  [subtask |-> idx - 1, reason |-> "No slot found"])
           => ~slot.found)

\* The finder has returned a slot on a later day than the cursor's, after
\* moving its trial time in place and jumping over a busy interval, and the
\* cursor is where it was.
C21_Witness ==
    /\ pc = "finding" /\ fpc = "done" /\ slot.found
    /\ durationMinutes > 0
    /\ busyTimes # <<>>
    /\ iters >= 3
    /\ DayIndex(slot.start) > DayIndex(searchStartTime)
    /\ nextAvailableStartTime = searchStartTime

----------------------------------------------------------------------------
(* Properties of the handler's input handling and sequencing (Spec) *)

\* C22: a request list with a non-positive duration is rejected before the
\* run starts: the finder is never called, no commit is made and no outcome
\* is recorded for any request.
C22_RejectsNonPositiveDuration ==
    (\E i \in 1..Len(subtasks) : subtasks[i] <= 0) =>
        /\ pc # "finding" /\ fpc = "idle"
        /\ scheduledEvents = <<>>
        /\ unscheduledSubtasks = <<>>

\* C23: commits are strictly sequential within a call of the handler. A call
\* has at most one createCalendarEvent in flight, exactly while it is
\* suspended on it, and every earlier request then has its outcome recorded;
\* each call of the finder was made with no commit in flight, for the
\* requests in order, and with a busy list that holds, for every request
\* placed before it, the interval from the slot's start to (at least) the
\* slot's end plus the buffer.
C23_SequentialCommits ==
    \A r \in Runs :
        LET run == runs[r]
        IN  /\ InFlight(run) \in {0, 1}
            /\ InFlight(run) = 1 <=> run.pc = "commit"
            /\ run.pc = "commit" =>
                  /\ run.calls[Len(run.calls)] = run.idx
                  /\ Len(run.scheduledEvents) + Len(run.unscheduledSubtasks)
                        = run.idx - 1
            /\ \A k \in 1..Len(run.finderLog) :
                  /\ run.finderLog[k].idx = k
                  /\ run.finderLog[k].inflight = 0
                  /\ \A j \in 1..Len(run.scheduledEvents) :
                        run.scheduledEvents[j].subtask < k =>
                           \E i \in 1..Len(run.finderLog[k].busyTimes) :
                              /\ run.finderLog[k].busyTimes[i].start =
                                    run.scheduledEvents[j].slot.start
                              /\ run.finderLog[k].busyTimes[i].end >=
                                    BusySlotEnd(run.scheduledEvents[j].slot)

\* One call has placed its first request and is suspended on the commit of
\* its second, while the other call is suspended on a commit of its own.
C23_Witness ==
    /\ runs[1].pc = "commit" /\ runs[1].idx = 2
    /\ Len(runs[1].scheduledEvents) = 1
    /\ Len(runs[1].finderLog) = 2
    /\ runs[2].pc = "commit"

\* What a call of the handler in local state run can become by running from
\* one await to the next, given only that state and the answer it awaits.
RunSuccessors(run) ==
    IF run.pc = "start"
    THEN {AwaitFreeBusy(run, now) : now \in RunNowInstants}
    ELSE IF run.pc = "freebusy"
    THEN {RunLoop(StoreFreeBusy(run, resp)) :
             resp \in RunFreeBusyResponses(run.searchRangeStart)}
    ELSE IF run.pc = "commit"
    THEN {RunLoop(Resolved(run)), RunLoop(Rejected(run))}
    ELSE {}

\* C24: run isolation. In every step of two interleaved calls of the handler,
\* a call whose local state (busy list, cursor and the rest) changes moves
\* to a state determined by its own previous local state and the answer it
\* was awaiting, and the local state of the other call stays as it was.
C24_RunIsolation ==
    [][\A r \in Runs :
          \/ runs'[r] = runs[r]
          \/ /\ runs'[r] \in RunSuccessors(runs[r])
             /\ \A q \in Runs \ {r} : runs'[q] = runs[q]]_vars

\* Both calls have placed a request and are suspended on their next commit,
\* with different busy lists and different cursors.
C24_Witness ==
    /\ \A r \in Runs :
          /\ runs[r].pc = "commit"
          /\ runs[r].scheduledEvents # <<>>
    /\ runs[1].busyTimes # runs[2].busyTimes
    /\ runs[1].nextAvailableStartTime # runs[2].nextAvailableStartTime

----------------------------------------------------------------------------
(* Properties of the client (ClientSpec) *)

\* The tool calls the client has made, by name.
CallsOf(name) == {k \in 1..Len(client.calls) : client.calls[k].name = name}

\* C25: the client calls schedule_tasks only as its second call, after a
\* plan_task call whose result was no error and held a non-empty subtask
\* list, and after the user confirmed; the subtasks and the description it
\* sends are those of the plan. Once the user has answered, "n" or "N" has
\* ended the session with no schedule_tasks call, and "y", "Y" or an empty
\* line has let it proceed to the call.
C25_ClientFlow ==
    /\ \A k \in CallsOf("schedule_tasks") :
          /\ k = 2 /\ Len(client.calls) = 2
          /\ client.calls[1].name = "plan_task"
          /\ client.planResult \in PlanResults
          /\ ~client.planResult.isError
          /\ client.planResult.content # <<>>
          /\ client.planResult.content[1].value # <<>>
          /\ client.calls[k].subtasks = Parsed(client.planResult.content[1].value)
          /\ client.calls[k].taskDescription = client.calls[1].taskDescription
          /\ client.asked /\ askForConfirmation(client.answer)
    /\ (client.asked /\ client.answer \in {<<"n">>, <<"N">>}) =>
          /\ client.pc = "cancelled"
          /\ CallsOf("schedule_tasks") = {}
    /\ (client.asked /\ client.answer \in {<<"y">>, <<"Y">>, <<>>}) =>
          client.pc \in {"proceed", "scheduling", "done", "scheduleFailed"}
    /\ client.pc \in {"scheduling", "done", "scheduleFailed"} =>
          CallsOf("schedule_tasks") = {2}
    /\ client.pc \in {"exit", "failed", "nothing", "cancelled"} =>
          CallsOf("schedule_tasks") = {}

\* The user answered with an empty line to a plan of two subtasks, and
\* schedule_tasks has been called with them.
C25_Witness ==
    /\ client.pc = "done"
    /\ client.asked /\ client.answer = <<>>
    /\ Len(client.calls) = 2
    /\ client.calls[2].name = "schedule_tasks"
    /\ Len(client.calls[2].subtasks.value) = 2

----------------------------------------------------------------------------
(* Properties of the steps of findEarliestFitSlot (FinderSpec) *)

\* The loop body is at its conflict scan: the deadline and working-hours
\* tests have passed for the trial time.
AtConflictScan ==
    /\ fpc = "loop"
    /\ currentTryTime < searchEndDate
    /\ ~(potentialEndTime > searchEndDate)
    /\ isWithinWorkingHours(currentTryTime, workStartHour, workEndHour)
    /\ ~EndTimeRejected(currentTryTime, potentialEndTime, workEndHour)

\* C26: conflict jump. When the trial slot [t, t + duration + buffer)
\* overlaps a busy interval, the step sets the trial time to the end of the
\* first overlapping interval of the list, in list order, and the loop goes
\* round again: nothing is returned on that step, and a slot that is
\* returned later has passed the deadline, working-hours and conflict tests
\* at its own start.
C26_ConflictJump ==
    /\ [][(/\ AtConflictScan
            /\ \E i \in 1..Len(busyTimes) :
                  Overlaps(busyTimes[i], currentTryTime, potentialEndTime))
           => /\ \E i \in 1..Len(busyTimes) :
                    /\ Overlaps(busyTimes[i], currentTryTime, potentialEndTime)
                    /\ \A j \in 1..(i - 1) :
                          ~Overlaps(busyTimes[j], currentTryTime, potentialEndTime)
                    /\ currentTryTime' = busyTimes[i].end
              /\ fpc' = "loop"
              /\ slot' = NullSlot]_vars
    /\ []((fpc = "done" /\ slot.found) =>
            /\ slot.start = currentTryTime
            /\ slot.start < searchEndDate
            /\ slot.start + totalDuration <= searchEndDate
            /\ isWithinWorkingHours(slot.start, workStartHour, workEndHour)
            /\ ~EndTimeRejected(slot.start, slot.start + totalDuration, workEndHour)
            /\ \A i \in 1..Len(busyTimes) :
                  ~Overlaps(busyTimes[i], slot.start, slot.start + totalDuration))

\* The first trial slot overlapped both intervals of the busy list, the
\* second of which ends earlier than the first; the trial time went to the
\* end of the first and the slot was found there.
C26_Witness ==
    /\ fpc = "done" /\ slot.found /\ durationMinutes > 0
    /\ iters = 2
    /\ Len(busyTimes) = 2
    /\ \A i \in 1..2 :
          Overlaps(busyTimes[i], searchStartTime, searchStartTime + totalDuration)
    /\ busyTimes[2].end < busyTimes[1].end
    /\ slot.start = busyTimes[1].end

\* The loop body is at a trial time that fails the working-hours test, at
\* its start or at its end, after passing the deadline test.
FailsWorkingHours ==
    /\ fpc = "loop"
    /\ currentTryTime < searchEndDate
    /\ ~(potentialEndTime > searchEndDate)
    /\ \/ ~isWithinWorkingHours(currentTryTime, workStartHour, workEndHour)
       \/ EndTimeRejected(currentTryTime, potentialEndTime, workEndHour)

\* C27: working-day advance. Whenever the working-hours test fails at trial
\* time t, the step moves t to startHour:00 of the first eligible weekday
\* after t's day: that is a Monday to Friday, the Monday after when t is on
\* a Friday, Saturday or Sunday, and it is strictly later than t; the loop
\* goes on from there.
C27_WorkingDayAdvance ==
    [][FailsWorkingHours =>
         /\ currentTryTime' = NextWeekdayOpening(currentTryTime)
         /\ getDay(currentTryTime') \in 1..5
         /\ getHours(currentTryTime') = workStartHour
         /\ getMinutes(currentTryTime') = 0
         /\ getDay(currentTryTime) \in {5, 6, 0} => getDay(currentTryTime') = 1
         /\ currentTryTime' > currentTryTime
         /\ DayIndex(currentTryTime') - DayIndex(currentTryTime) \in 1..3
         /\ fpc' = "loop"]_vars

\* A search that started on a Friday afternoon, too late for the request,
\* found its slot at the opening of the Monday after.
C27_Witness ==
    /\ fpc = "done" /\ slot.found /\ durationMinutes > 0
    /\ getDay(searchStartTime) = 5
    /\ isWithinWorkingHours(searchStartTime, workStartHour, workEndHour)
    /\ iters = 2
    /\ getDay(slot.start) = 1
    /\ slot.start = NextWeekdayOpening(searchStartTime)
    /\ DayIndex(slot.start) = DayIndex(searchStartTime) + 3

\* C28: the reported slot excludes the buffer. A returned slot has
\* end = start + durationMinutes exactly, while the interval that is held
\* against the deadline and the busy list is [t, t + durationMinutes +
\* bufferMinutes): a trial time whose buffered end passes the deadline ends
\* the search with null, a trial time whose buffered interval overlaps a
\* busy interval is not returned, and one whose buffered interval is free is
\* returned without the buffer.
C28_SlotExcludesBuffer ==
    /\ []((fpc = "done" /\ slot.found) =>
            /\ slot.end = slot.start + durationMinutes
            /\ slot.start + durationMinutes + bufferMinutes <= searchEndDate
            /\ FreeOf(busyTimes, slot.start,
                      slot.start + durationMinutes + bufferMinutes))
    /\ [][(/\ fpc = "loop"
            /\ currentTryTime < searchEndDate
            /\ currentTryTime + durationMinutes + bufferMinutes > searchEndDate)
           => fpc' = "done" /\ ~slot'.found]_vars
    /\ [][AtConflictScan =>
            IF FreeOf(busyTimes, currentTryTime,
                      currentTryTime + durationMinutes + bufferMinutes)
            THEN /\ fpc' = "done"
                 /\ slot' = [found |-> TRUE, start |-> currentTryTime,
                             end |-> currentTryTime + durationMinutes]
            ELSE fpc' = "loop" /\ ~slot'.found]_vars

\* A request whose own interval at the cursor was free, but whose buffer ran
\* into a busy interval, was given a slot behind that interval, reported
\* without the buffer.
C28_Witness ==
    /\ fpc = "done" /\ slot.found
    /\ durationMinutes > 0 /\ bufferMinutes > 0
    /\ isWithinWorkingHours(searchStartTime, workStartHour, workEndHour)
    /\ \E i \in 1..Len(busyTimes) :
          /\ IntervalsOverlap(searchStartTime,
                              searchStartTime + durationMinutes + bufferMinutes,
                              busyTimes[i].start, busyTimes[i].end)
          /\ ~IntervalsOverlap(searchStartTime, searchStartTime + durationMinutes,
                               busyTimes[i].start, busyTimes[i].end)
          /\ slot.start >= busyTimes[i].end
    /\ slot.end = slot.start + durationMinutes

\* C29: half-open overlap. A busy interval that ends exactly at the trial
\* start t, or starts exactly at t + duration + buffer, is no conflict: when
\* every busy interval ends at or before t or starts at or after
\* t + duration + buffer, the step returns the slot at t and the trial time
\* does not move; and the trial time never jumps to the end of an interval
\* that only touches the trial slot.
C29_HalfOpenOverlap ==
    /\ [][(/\ AtConflictScan
            /\ \A i \in 1..Len(busyTimes) :
                  \/ busyTimes[i].end <= currentTryTime
                  \/ busyTimes[i].start >= potentialEndTime)
           => /\ fpc' = "done"
              /\ slot'.found /\ slot'.start = currentTryTime
              /\ currentTryTime' = currentTryTime]_vars
    /\ [][(AtConflictScan /\ fpc' = "loop") =>
            \E i \in 1..Len(busyTimes) :
               /\ currentTryTime' = busyTimes[i].end
               /\ busyTimes[i].end > currentTryTime
               /\ busyTimes[i].start < potentialEndTime]_vars

\* A slot was returned at the cursor, between a busy interval that ends
\* exactly at its start and one that starts exactly at its buffered end.
C29_Witness ==
    /\ fpc = "done" /\ slot.found
    /\ durationMinutes > 0 /\ bufferMinutes > 0
    /\ slot.start = searchStartTime
    /\ iters = 1
    /\ \E i \in 1..Len(busyTimes) : busyTimes[i].end = slot.start
    /\ \E i \in 1..Len(busyTimes) :
          busyTimes[i].start = slot.start + durationMinutes + bufferMinutes

----------------------------------------------------------------------------
(* Properties of the recorded outcomes (Spec) *)

\* C30: outcomes are exact. The step that ends the handling of a request
\* records it in one of three ways and no other: "No slot found" exactly
\* when the finder returned null; "Calendar API error" exactly when the
\* finder returned a slot and the commit failed (the busy list has gained
\* nothing); scheduled, with the slot, exactly when the finder returned a
\* slot and the commit succeeded (the busy list has gained the slot). No
\* other reason is ever recorded, and no other step records anything.
C30_ExactOutcomes ==
    /\ [][(pc = "finding" /\ pc' # "finding") =>
            \/ /\ ~slot.found
               /\ unscheduledSubtasks' =
                     Append(unscheduledSubtasks,
                            [subtask |-> idx, reason |-> "No slot found"])
               /\ scheduledEvents' = scheduledEvents
               /\ Len(busyTimes') = Len(busyTimes)
            \/ /\ slot.found
               /\ unscheduledSubtasks' =
                     Append(unscheduledSubtasks,
                            [subtask |-> idx, reason |-> "Calendar API error"])
               /\ scheduledEvents' = scheduledEvents
               /\ Len(busyTimes') = Len(busyTimes)
            \/ /\ slot.found
               /\ scheduledEvents' =
                     Append(scheduledEvents, [subtask |-> idx, slot |-> slot])
               /\ unscheduledSubtasks' = unscheduledSubtasks
               /\ Len(busyTimes') = Len(busyTimes) + 1]_vars
    /\ [][(pc = "finding" /\ pc' = "finding") =>
            /\ scheduledEvents' = scheduledEvents
            /\ unscheduledSubtasks' = unscheduledSubtasks]_vars
    /\ [](\A k \in 1..Len(unscheduledSubtasks) :
            unscheduledSubtasks[k].reason \in {"No slot found", "Calendar API error"})

\* A finished run of three requests: the commit of the first failed, the
\* second was scheduled, the third, longer than a working day, found no
\* slot.
C30_Witness ==
    /\ pc = "done"
    /\ Len(subtasks) = 3
    /\ subtasks[3] > (SCHEDULING_WORK_DAY_END_HOUR - SCHEDULING_WORK_DAY_START_HOUR) * 60
    /\ unscheduledSubtasks =
          << [subtask |-> 1, reason |-> "Calendar API error"],
             [subtask |-> 3, reason |-> "No slot found"] >>
    /\ Len(scheduledEvents) = 1
    /\ scheduledEvents[1].subtask = 2

\* The elements of the busy list that the handler pushed itself.
InsertedBusy == {i \in 1..Len(busyTimes) : busyTimes[i].endRef # 0}

\* C31: interval well-formedness. Every slot recorded as scheduled, and every
\* interval the handler has pushed to the busy list, has start < end.
C31_WellFormedIntervals ==
    /\ \A k \in 1..Len(scheduledEvents) :
          scheduledEvents[k].slot.start < scheduledEvents[k].slot.end
    /\ \A i \in InsertedBusy : busyTimes[i].start < busyTimes[i].end

\* The same, for runs whose requests all have a positive duration.
C31_WellFormedIntervalsPositive ==
    (\A i \in 1..Len(subtasks) : subtasks[i] > 0) => C31_WellFormedIntervals

\* C32: cancellation. Once the caller has aborted, the head of the loop,
\* which is where the handler stands between two requests, makes no further
\* finder call and so no further commit, and every outcome recorded up to
\* then stays recorded.
C32_Cancellation ==
    /\ [][(extra.signal.aborted /\ pc = "loop") => pc' # "finding"]_vars
    /\ [][extra.signal.aborted =>
            /\ Len(scheduledEvents') >= Len(scheduledEvents)
            /\ Len(unscheduledSubtasks') >= Len(unscheduledSubtasks)
            /\ SubSeq(scheduledEvents', 1, Len(scheduledEvents)) = scheduledEvents
            /\ SubSeq(unscheduledSubtasks', 1, Len(unscheduledSubtasks)) =
                  unscheduledSubtasks]_vars

\* Nothing recorded is ever taken back, aborted or not.
C32_RecordedOutcomesStand ==
    [][/\ Len(scheduledEvents') >= Len(scheduledEvents)
       /\ Len(unscheduledSubtasks') >= Len(unscheduledSubtasks)
       /\ SubSeq(scheduledEvents', 1, Len(scheduledEvents)) = scheduledEvents
       /\ SubSeq(unscheduledSubtasks', 1, Len(unscheduledSubtasks)) =
             unscheduledSubtasks]_vars

----------------------------------------------------------------------------
(* Properties of findEarliestFitSlot over its busy list (FinderSpec) *)

\* The busy list in the order given by the permutation f of its indices.
Permuted(busy, f) == [i \in 1..Len(busy) |-> busy[f[i]]]

\* C33: order independence of the busy list. With the cursor, duration,
\* buffer, policy and deadline fixed, the result is the same for every
\* permutation of the busy list.
C33_OrderIndependence ==
    fpc = "done" =>
        \A f \in Permutations(1..Len(busyTimes)) :
            findEarliestFitSlot(searchStartTime, durationMinutes,
                                Permuted(busyTimes, f), workStartHour,
                                workEndHour, bufferMinutes, searchEndDate)
            = slot

----------------------------------------------------------------------------
(* Properties of the cursor across requests (Spec) *)

\* C34: no backtracking. The slots recorded as scheduled are chronological
\* in request order: of two of them, the later request's slot starts no
\* earlier than the earlier request's slot end plus the buffer.
C34_NoBacktracking ==
    \A i, j \in 1..Len(scheduledEvents) :
        i < j =>
            /\ scheduledEvents[i].subtask < scheduledEvents[j].subtask
            /\ scheduledEvents[j].slot.start >=
                  scheduledEvents[i].slot.end + SCHEDULING_BUFFER_MINUTES

\* Two requests are placed, and before the first one's slot there was room,
\* free and in working hours, for the second one with its buffer.
C34_Witness ==
    /\ Len(scheduledEvents) = 2
    /\ \A i \in 1..Len(subtasks) : subtasks[i] > 0
    /\ LET needed == subtasks[scheduledEvents[2].subtask] + SCHEDULING_BUFFER_MINUTES
       IN  \E t \in searchRangeStart..(scheduledEvents[1].slot.start - needed) :
              /\ InOpeningHours(t, SCHEDULING_WORK_DAY_START_HOUR,
                                SCHEDULING_WORK_DAY_END_HOUR)
              /\ t + needed <= At(DayIndex(t), SCHEDULING_WORK_DAY_END_HOUR, 0)
              /\ FreeOf(busyTimes, t, t + needed)

\* Every request of the run has a positive duration.
PositiveDurations == \A i \in 1..Len(subtasks) : subtasks[i] > 0

\* C35: in a run whose window is not inverted and whose durations are all
\* positive, the finder is always invoked with a search start at or before
\* the window's end, also after commit failures have nudged the cursor.
C35_FinderPrecondition ==
    (pc = "finding" /\ PositiveDurations /\ searchRangeStart <= searchRangeEnd)
        => /\ searchStartTime = nextAvailableStartTime
           /\ searchEndDate = searchRangeEnd
           /\ searchStartTime <= searchEndDate

\* The same without the condition on the durations.
C35_FinderPreconditionAnyDuration ==
    pc = "finding" => searchStartTime <= searchEndDate

\* The finder is invoked with the cursor exactly at the window's end, in a run
\* where a commit failure has nudged the cursor before.
C35_Witness ==
    /\ pc = "finding"
    /\ PositiveDurations
    /\ searchRangeStart < searchRangeEnd
    /\ searchStartTime = searchRangeEnd
    /\ \E k \in 1..Len(unscheduledSubtasks) :
          unscheduledSubtasks[k].reason = "Calendar API error"

----------------------------------------------------------------------------
(* Properties of the handler's stages (Spec) *)

\* The awaited stages before the scheduling loop, in the order of the code.
StageOrder == <<"authorize", "createDocsWithSubtasks", "getFreeBusy">>

\* The stages resolved so far are the first ones of StageOrder, in order.
StagesInOrder ==
    /\ Len(stages) <= Len(StageOrder)
    /\ stages = SubSeq(StageOrder, 1, Len(stages))

\* A step on which the stage the handler is waiting for rejects.
StageRejectedStep ==
    /\ pc \in {"entered", "authorized", "start"}
    /\ stages' = stages

\* C36: the stages run in the order authenticate, create document, query
\* free/busy, place requests; no calendar event is created and no request is
\* placed unless the three earlier stages resolved; a rejection of any of
\* the three ends the call with an isError result and leaves a document that
\* was created in place; a failure creating one calendar event never makes
\* the call an error.
C36_StageOrdering ==
    /\ [](StagesInOrder)
    /\ []((pc \in {"loop", "finding", "done"}) => stages = StageOrder)
    /\ [][(SuccessStep \/ FailureStep) => stages = StageOrder]_vars
    /\ []((scheduledEvents # <<>> \/ unscheduledSubtasks # <<>>)
             => stages = StageOrder)
    /\ [][StageRejectedStep =>
            /\ pc' = "failed"
            /\ result'.returned /\ result'.isError
            /\ documentUrl' = documentUrl
            /\ resources' = resources]_vars
    /\ [](pc = "failed" =>
            /\ result.returned /\ result.isError
            /\ stages # StageOrder
            /\ (Len(stages) >= 2 <=> documentUrl = CreatedDocumentUrl))
    /\ [][pc = "failed" => UNCHANGED vars]_vars
    /\ [][documentUrl # "" => documentUrl' = documentUrl]_vars
    /\ [][FailureStep => (pc' = "loop" /\ result' = NoResult)]_vars
    /\ [](stages = StageOrder => ~result.isError)
    /\ [](pc = "done" => (result.returned /\ ~result.isError))

\* The free/busy query was rejected after the document had been created: the
\* call has ended with an error result and the document is still there.
C36_Witness ==
    /\ pc = "failed"
    /\ stages = <<"authorize", "createDocsWithSubtasks">>
    /\ documentUrl = CreatedDocumentUrl
    /\ result.isError
    /\ scheduledEvents = <<>>

\* The call has ended without an error although a commit was rejected.
C36_CommitFailureNoError ==
    /\ pc = "done"
    /\ ~result.isError
    /\ \E k \in 1..Len(unscheduledSubtasks) :
          unscheduledSubtasks[k].reason = "Calendar API error"

----------------------------------------------------------------------------
(* Properties of the client's cleanup (ClientSpec) *)

\* C37: in every execution of the client that reaches the connect step, the
\* transport is closed exactly once before the client ends, whichever way the
\* try block was left, and the exit code is 1 exactly when an error was
\* thrown. No step is possible once main has ended, and main cannot stop
\* before it has ended.
C37_ClientCleanup ==
    /\ client.closes <= 1
    /\ client.pc # "exit" =>
          /\ client.ended <=> client.closes = 1
          /\ client.ended => client.pc \in LeftTry
          /\ client.exitCode = 1 <=> client.thrown
          /\ client.exitCode \in {0, 1}
          /\ client.thrown <=> client.pc \in {"failed", "scheduleFailed"}
    /\ client.pc \in LeftTry /\ ~client.ended => ENABLED ClientFinally
    /\ client.ended => ~ENABLED ClientNext
    /\ (~ENABLED ClientNext) => client.ended

\* schedule_tasks answered with an error result: nothing was thrown, the
\* transport has been closed once and the exit code is not 1.
C37_Witness ==
    /\ client.pc = "done"
    /\ client.scheduleIsError
    /\ client.ended
    /\ client.closes = 1
    /\ client.exitCode = 0

\* The user cancelled and main has ended.
C37_CancelledEnded ==
    client.pc = "cancelled" /\ client.ended /\ client.closes = 1

\* The planning call failed and main has ended with exit code 1.
C37_FailedEnded ==
    client.pc = "failed" /\ client.ended /\ client.closes = 1 /\ client.exitCode = 1

----------------------------------------------------------------------------
(* Properties of authorize (AuthSpec) *)

\* C38: a valid saved token is returned without the interactive flow being
\* started; an invalid saved token leads to one attempt to delete the token
\* file and then to the interactive flow; a client of the interactive flow
\* is returned only after the credentials were saved to the token file;
\* every other path ends in an error whose message starts with "Failed to
\* authenticate".
C38_AuthorizeOutcomes ==
    /\ [][(auth.pc = "verify" /\ auth'.pc = "returned") =>
            /\ ~auth'.flowStarted
            /\ auth'.outcome.client = loadSavedCredentialsIfExist(auth.tokenFile)
            /\ auth'.unlinkAttempts = 0]_vars
    /\ [][(auth.pc = "verify" /\ auth'.pc # "verify" /\ auth'.pc # "returned")
            => auth'.pc = "unlink"]_vars
    /\ [][auth.pc = "unlink" =>
            (auth'.pc = "flow" /\ auth'.unlinkAttempts = auth.unlinkAttempts + 1)]_vars
    /\ [](auth.flowStarted /\ auth.unlinkAttempts > 0 => auth.unlinkAttempts = 1)
    /\ [](auth.pc = "returned" =>
            /\ auth.outcome.kind = "client"
            /\ ~auth.outcome.client.isNull
            /\ \/ auth.outcome.client.from = "token.json" /\ ~auth.flowStarted
               \/ /\ auth.outcome.client.from = "flow"
                  /\ auth.flowStarted
                  /\ auth.saved
                  /\ auth.tokenFile = "authorized_user")
    /\ [](auth.pc = "thrown" =>
            /\ auth.outcome.kind = "error"
            /\ auth.flowStarted
            /\ StartsWith(auth.outcome.message, "Failed to authenticate"))
    /\ []((~ENABLED AuthNext) => auth.pc \in {"returned", "thrown"})

\* The saved token was invalid, the token file could not be deleted, the flow
\* gave credentials and saving them failed: authorize has thrown.
C38_Witness ==
    /\ auth.pc = "thrown"
    /\ auth.unlinkAttempts = 1
    /\ auth.tokenFile = "authorized_user"
    /\ ~auth.client.isNull
    /\ auth.outcome.message =
          <<"Failed to authenticate", ": ", "Failed to save credentials">>

\* The client of the interactive flow is returned after an invalid token was
\* deleted.
C38_FlowClientReturned ==
    /\ auth.pc = "returned"
    /\ auth.outcome.client.from = "flow"
    /\ auth.unlinkAttempts = 1

====
